---------------------------- MODULE Spec2Model ----------------------------
(***************************************************************************)
(* A state-machine model of the personal-trainer agent:                    *)
(*   - WorkoutGenerator (scripts/workout_generator.py): the split          *)
(*     templates held by the generator object and generate_plan, which     *)
(*     works on them in place;                                             *)
(*   - ProgressTracker (scripts/progress_tracker.py): the workout log, its *)
(*     persisted copy, and the analytics computed from it;                 *)
(*   - ExerciseLibrary (scripts/exercise_library.py): the exercise table,  *)
(*     lookup by name and alternatives;                                    *)
(*   - PersonalTrainerAgent (scripts/main.py): the stored user profile,    *)
(*     the assessment, and plan generation from the profile.               *)
(*                                                                         *)
(* Python objects that are shared by reference are modelled as a heap: the *)
(* variable splits holds the template objects, and a returned plan holds   *)
(* references into it (Ref), exactly as plan['weeks'][i]['sessions'] is    *)
(* the list object template['sessions'].                                   *)
(***************************************************************************)
EXTENDS Integers, Sequences, FiniteSets, TLC

VARIABLES
    splits,         \* WorkoutGenerator.splits: split name -> template object
    plans,          \* the plans returned so far by generate_plan, in call order
    workouts,       \* ProgressTracker.workouts: the in-memory log
    workouts_file,  \* the content of workouts.json
    now,            \* the wall clock, in ticks (TicksPerDay ticks a day)
    ret,            \* the value returned by the last ProgressTracker call
    arg,            \* the arguments of the last report or plateau call, or
                    \* the argument of a helper that is applied directly
    user_profile,   \* PersonalTrainerAgent.user_profile
    profile_file,   \* the content of profile.json (<<>>: no such file)
    plan_file       \* the content of current_plan.json (<<>>: no such file)

genVars == <<splits, plans>>
trackerVars == <<workouts, workouts_file, now, ret>>
agentVars == <<user_profile, profile_file, plan_file>>
vars == <<splits, plans, workouts, workouts_file, now, ret, arg, agentVars>>

-----------------------------------------------------------------------------
(* Generic helpers *)

Min(a, b) == IF a <= b THEN a ELSE b
Max(a, b) == IF a >= b THEN a ELSE b

\* Python's seq[:n]
Take(s, n) == SubSeq(s, 1, Min(n, Len(s)))

\* Python's seq[-n:]
LastN(s, n) == SubSeq(s, Max(1, Len(s) - n + 1), Len(s))

\* Python's a + b on lists
Concat(a, b) == a \o b

RECURSIVE SumSeq(_)
SumSeq(s) == IF s = <<>> THEN 0 ELSE s[1] + SumSeq(Tail(s))

RECURSIVE MaxSeq(_)
MaxSeq(s) == IF Len(s) = 1 THEN s[1] ELSE Max(s[1], MaxSeq(Tail(s)))

RECURSIVE MinSeq(_)
MinSeq(s) == IF Len(s) = 1 THEN s[1] ELSE Min(s[1], MinSeq(Tail(s)))

-----------------------------------------------------------------------------
(***************************************************************************)
(* WorkoutGenerator: the templates                                         *)
(***************************************************************************)

\* One exercise slot of a template: {'name': n, 'type': t, 'muscle': m}
Slot(n, t, m) == [name |-> n, type |-> t, muscle |-> m]

GetFullBodyTemplate ==
    [name |-> "Full Body", days_per_week |-> 3, sessions |-> <<
        [name |-> "Full Body A", exercises |-> <<
            Slot("Squat", "compound", "legs"),
            Slot("Bench Press", "compound", "chest"),
            Slot("Barbell Row", "compound", "back"),
            Slot("Overhead Press", "compound", "shoulders"),
            Slot("Plank", "core", "core") >>],
        [name |-> "Full Body B", exercises |-> <<
            Slot("Deadlift", "compound", "legs"),
            Slot("Incline Press", "compound", "chest"),
            Slot("Pull-ups", "compound", "back"),
            Slot("Dumbbell Lunges", "compound", "legs"),
            Slot("Face Pulls", "isolation", "shoulders") >>] >>]

GetUpperLowerTemplate ==
    [name |-> "Upper/Lower", days_per_week |-> 4, sessions |-> <<
        [name |-> "Upper A", exercises |-> <<
            Slot("Bench Press", "compound", "chest"),
            Slot("Barbell Row", "compound", "back"),
            Slot("Overhead Press", "compound", "shoulders"),
            Slot("Pull-ups", "compound", "back"),
            Slot("Face Pulls", "isolation", "shoulders"),
            Slot("Tricep Pushdown", "isolation", "triceps"),
            Slot("Bicep Curl", "isolation", "biceps") >>],
        [name |-> "Lower A", exercises |-> <<
            Slot("Squat", "compound", "quads"),
            Slot("Romanian Deadlift", "compound", "hamstrings"),
            Slot("Leg Press", "compound", "quads"),
            Slot("Leg Curl", "isolation", "hamstrings"),
            Slot("Calf Raises", "isolation", "calves") >>],
        [name |-> "Upper B", exercises |-> <<
            Slot("Incline Dumbbell Press", "compound", "chest"),
            Slot("Cable Row", "compound", "back"),
            Slot("Dumbbell Shoulder Press", "compound", "shoulders"),
            Slot("Lat Pulldown", "compound", "back"),
            Slot("Lateral Raises", "isolation", "shoulders"),
            Slot("Skull Crushers", "isolation", "triceps"),
            Slot("Hammer Curl", "isolation", "biceps") >>],
        [name |-> "Lower B", exercises |-> <<
            Slot("Deadlift", "compound", "posterior"),
            Slot("Front Squat", "compound", "quads"),
            Slot("Walking Lunges", "compound", "legs"),
            Slot("Leg Extension", "isolation", "quads"),
            Slot("Seated Calf Raise", "isolation", "calves") >>] >>]

GetPplTemplate ==
    [name |-> "Push/Pull/Legs", days_per_week |-> 6, sessions |-> <<
        [name |-> "Push", exercises |-> <<
            Slot("Bench Press", "compound", "chest"),
            Slot("Incline Dumbbell Press", "compound", "chest"),
            Slot("Overhead Press", "compound", "shoulders"),
            Slot("Cable Fly", "isolation", "chest"),
            Slot("Lateral Raises", "isolation", "shoulders"),
            Slot("Tricep Pushdown", "isolation", "triceps"),
            Slot("Overhead Tricep Extension", "isolation", "triceps") >>],
        [name |-> "Pull", exercises |-> <<
            Slot("Barbell Row", "compound", "back"),
            Slot("Pull-ups", "compound", "back"),
            Slot("Seated Cable Row", "compound", "back"),
            Slot("Face Pulls", "isolation", "rear_delts"),
            Slot("Barbell Curl", "isolation", "biceps"),
            Slot("Hammer Curl", "isolation", "biceps") >>],
        [name |-> "Legs", exercises |-> <<
            Slot("Squat", "compound", "quads"),
            Slot("Romanian Deadlift", "compound", "hamstrings"),
            Slot("Leg Press", "compound", "quads"),
            Slot("Leg Curl", "isolation", "hamstrings"),
            Slot("Leg Extension", "isolation", "quads"),
            Slot("Calf Raises", "isolation", "calves") >>] >>]

\* ul and ppl are fresh template objects, so the hybrid template shares no
\* session object with splits['upper_lower'] or splits['ppl'].
GetUpperLowerPplTemplate ==
    [name |-> "Upper/Lower + PPL", days_per_week |-> 5,
     sessions |-> Concat(Take(GetUpperLowerTemplate.sessions, 2),
                         GetPplTemplate.sessions)]

\* WorkoutGenerator.__init__: self.splits
NewSplits ==
    [full_body       |-> GetFullBodyTemplate,
     upper_lower     |-> GetUpperLowerTemplate,
     ppl             |-> GetPplTemplate,
     upper_lower_ppl |-> GetUpperLowerPplTemplate]

\* WorkoutGenerator.__init__: self.rep_schemes
rep_schemes ==
    [strength        |-> [sets |-> 4, reps |-> "4-6",   rest |-> "3-5 min"],
     muscle_building |-> [sets |-> 3, reps |-> "8-12",  rest |-> "60-90 sec"],
     fat_loss        |-> [sets |-> 3, reps |-> "12-15", rest |-> "30-60 sec"],
     endurance       |-> [sets |-> 2, reps |-> "15-20", rest |-> "30 sec"]]


-----------------------------------------------------------------------------
(***************************************************************************)
(* WorkoutGenerator: the adjustment steps.  Each takes the template object *)
(* and gives the state of that same object after the step (the steps       *)
(* assign to the template's sessions and slots and return the template).   *)
(***************************************************************************)

\* if exercise['name'] in subs: exercise['name'] = subs[exercise['name']]
Substitute(subs, slot) ==
    IF slot.name \in DOMAIN subs
    THEN [slot EXCEPT !.name = subs[slot.name]]
    ELSE slot

\* for session in template['sessions']: for exercise in session['exercises']:
\*     if exercise['name'] in subs: exercise['name'] = subs[exercise['name']]
RenameSlots(template, subs) ==
    [template EXCEPT !.sessions =
        [i \in DOMAIN @ |->
            [@[i] EXCEPT !.exercises =
                [j \in DOMAIN @ |-> Substitute(subs, @[j])]]]]

\* an _adjust_for_experience that keeps the last 5 slots of a session
AdjustForExperience_LastFive(template, level) ==
    IF level = "beginner"
    THEN [template EXCEPT !.sessions =
            [i \in DOMAIN @ |-> [@[i] EXCEPT !.exercises = LastN(@, 5)]]]
    ELSE template

\* _adjust_for_experience
AdjustForExperience(template, level) ==
    IF level = "beginner"
    THEN [template EXCEPT !.sessions =
            [i \in DOMAIN @ |-> [@[i] EXCEPT !.exercises = Take(@, 5)]]]
    ELSE template

\* _adjust_for_equipment: substitutions
substitutions ==
    [bodyweight |->
        ("Bench Press" :> "Push-ups") @@
        ("Barbell Row" :> "Inverted Row") @@
        ("Squat" :> "Bodyweight Squat") @@
        ("Deadlift" :> "Single Leg RDL") @@
        ("Overhead Press" :> "Pike Push-ups") @@
        ("Leg Press" :> "Bulgarian Split Squat") @@
        ("Lat Pulldown" :> "Pull-ups") @@
        ("Cable Row" :> "Inverted Row") @@
        ("Leg Curl" :> "Nordic Curl") @@
        ("Leg Extension" :> "Sissy Squat"),
     home_gym |->
        ("Leg Press" :> "Goblet Squat") @@
        ("Lat Pulldown" :> "Pull-ups") @@
        ("Cable Row" :> "Dumbbell Row") @@
        ("Cable Fly" :> "Dumbbell Fly") @@
        ("Leg Curl" :> "Dumbbell Leg Curl") @@
        ("Leg Extension" :> "Dumbbell Step-up")]


\* an _adjust_for_equipment that takes the home_gym table for an equipment
\* value that is no key of substitutions
AdjustForEquipment_HomeGymForOthers(template, equipment) ==
    IF equipment \in DOMAIN substitutions
    THEN RenameSlots(template, substitutions[equipment])
    ELSE RenameSlots(template, substitutions.home_gym)

\* _adjust_for_equipment
AdjustForEquipment(template, equipment) ==
    IF equipment \in DOMAIN substitutions
    THEN RenameSlots(template, substitutions[equipment])
    ELSE template

\* _adjust_for_limitations: limitation_subs
limitation_subs ==
    [lower_back |->
        ("Deadlift" :> "Hip Thrust") @@
        ("Barbell Row" :> "Chest Supported Row") @@
        ("Squat" :> "Leg Press"),
     knee |->
        ("Squat" :> "Box Squat") @@
        ("Lunges" :> "Step-ups") @@
        ("Leg Extension" :> "Terminal Knee Extension"),
     shoulder |->
        ("Overhead Press" :> "Landmine Press") @@
        ("Bench Press" :> "Floor Press") @@
        ("Lateral Raises" :> "Cable Lateral Raise")]


\* an _adjust_for_limitations that goes through the list from its end
RECURSIVE AdjustForLimitations_LastFirst(_, _)
AdjustForLimitations_LastFirst(template, limitations) ==
    IF limitations = <<>>
    THEN template
    ELSE LET limitation == limitations[Len(limitations)]
             t == IF limitation \in DOMAIN limitation_subs
                  THEN RenameSlots(template, limitation_subs[limitation])
                  ELSE template
         IN  AdjustForLimitations_LastFirst(t, SubSeq(limitations, 1, Len(limitations) - 1))

\* _adjust_for_limitations: one pass over the template per listed limitation,
\* in list order
RECURSIVE AdjustForLimitations(_, _)
AdjustForLimitations(template, limitations) ==
    IF limitations = <<>>
    THEN template
    ELSE LET limitation == Head(limitations)
             t == IF limitation \in DOMAIN limitation_subs
                  THEN RenameSlots(template, limitation_subs[limitation])
                  ELSE template
         IN  AdjustForLimitations(t, Tail(limitations))


\* an _apply_rep_scheme that gives every slot the scheme's reps and rest
ApplyScheme_SchemeForAll(rep_scheme, slot) ==
    [name |-> slot.name, type |-> slot.type, muscle |-> slot.muscle,
     sets |-> rep_scheme.sets, reps |-> rep_scheme.reps,
     rest |-> rep_scheme.rest]

\* _apply_rep_scheme: the three keys are set on (added to) every slot
ApplyScheme(rep_scheme, slot) ==
    IF slot.type = "compound"
    THEN [name |-> slot.name, type |-> slot.type, muscle |-> slot.muscle,
          sets |-> rep_scheme.sets, reps |-> rep_scheme.reps,
          rest |-> rep_scheme.rest]
    ELSE [name |-> slot.name, type |-> slot.type, muscle |-> slot.muscle,
          sets |-> rep_scheme.sets, reps |-> "10-15", rest |-> "60 sec"]

\* _apply_rep_scheme
ApplyRepScheme(template, rep_scheme) ==
    [template EXCEPT !.sessions =
        [i \in DOMAIN @ |->
            [@[i] EXCEPT !.exercises =
                [j \in DOMAIN @ |-> ApplyScheme(rep_scheme, @[j])]]]]

\* a _get_week_notes that tests for the deload week before the final week
GetWeekNotes_DeloadFirst(week_num, total_weeks) ==
    IF week_num = 1
    THEN "Focus on form. Use moderate weights to learn movements."
    ELSE IF week_num % 4 = 0
    THEN "Deload week if needed. Reduce volume by 40%."
    ELSE IF week_num = total_weeks
    THEN "Final week! Push hard but consider a deload after this."
    ELSE "Progressive overload. Try to beat last week's numbers."

\* _get_week_notes
GetWeekNotes(week_num, total_weeks) ==
    IF week_num = 1
    THEN "Focus on form. Use moderate weights to learn movements."
    ELSE IF week_num = total_weeks
    THEN "Final week! Push hard but consider a deload after this."
    ELSE IF week_num % 4 = 0
    THEN "Deload week if needed. Reduce volume by 40%."
    ELSE "Progressive overload. Try to beat last week's numbers."

\* a generate_plan that takes the first template of the table for an
\* unknown split name
TemplateKey_FirstOfTable(heap, split_type) ==
    IF split_type \in DOMAIN heap THEN split_type ELSE "ppl"

\* self.splits.get(split_type, self.splits['full_body']): the key of the
\* template object generate_plan works on
TemplateKey(heap, split_type) ==
    IF split_type \in DOMAIN heap THEN split_type ELSE "full_body"

\* self.rep_schemes.get(goal, self.rep_schemes['muscle_building'])
SchemeFor(goal) ==
    IF goal \in DOMAIN rep_schemes
    THEN rep_schemes[goal]
    ELSE rep_schemes["muscle_building"]

\* generate_plan, lines 54-67: the template object after the four steps.
\* No copy is taken, so this is the new state of heap[TemplateKey].
AdjustedTemplate(heap, a) ==
    LET t0 == heap[TemplateKey(heap, a.split_type)]
        t1 == AdjustForExperience(t0, a.experience_level)
        t2 == AdjustForEquipment(t1, a.equipment)
        t3 == AdjustForLimitations(t2, a.limitations)
    IN  ApplyRepScheme(t3, SchemeFor(a.goal))

\* A reference to the list object heap[key]['sessions']
Ref(key) == [ref |-> key]

\* generate_plan, lines 69-85: the returned dict.  Every week's 'sessions'
\* is the template's own list object, held by reference.
PlanObject(heap, a) ==
    [split_type       |-> a.split_type,
     goal             |-> a.goal,
     experience_level |-> a.experience_level,
     weeks            |-> [w \in 1..a.weeks |->
                             [week_number |-> w,
                              sessions    |-> Ref(TemplateKey(heap, a.split_type)),
                              notes       |-> GetWeekNotes(w, a.weeks)]]]

\* The content of a plan object in a given heap: references followed
PlanValue(plan, heap) ==
    [plan EXCEPT !.weeks =
        [w \in DOMAIN @ |->
            [@[w] EXCEPT !.sessions = heap[@.ref].sessions]]]

\* The heap after generate_plan(a)
HeapAfterGenerate(heap, a) ==
    [heap EXCEPT ![TemplateKey(heap, a.split_type)] = AdjustedTemplate(heap, a)]

\* What generate_plan(a) returns on a generator in state heap, as a value
GeneratedPlan(heap, a) ==
    PlanValue(PlanObject(heap, a), HeapAfterGenerate(heap, a))

\* The arguments of generate_plan
PlanArgs(split, experience, goal, equipment, weeks, limitations) ==
    [split_type |-> split, experience_level |-> experience, goal |-> goal,
     equipment |-> equipment, weeks |-> weeks, limitations |-> limitations]

\* generate_plan: the template is adjusted in place.  The call record keeps
\* the arguments, the returned object, and the content that the session
\* list it refers to had at return time.
GeneratePlan(a) ==
    /\ splits' = HeapAfterGenerate(splits, a)
    /\ plans' = Append(plans,
                  [args     |-> a,
                   plan     |-> PlanObject(splits, a),
                   sessions |-> AdjustedTemplate(splits, a).sessions])
    /\ UNCHANGED <<workouts, workouts_file, now, ret, arg, agentVars>>

\* The content of the plan of call record c at the moment it was returned
Returned(c) ==
    [c.plan EXCEPT !.weeks =
        [w \in DOMAIN @ |-> [@[w] EXCEPT !.sessions = c.sessions]]]

\* The content of the plan of call record c now
Current(c) == PlanValue(c.plan, splits)

-----------------------------------------------------------------------------
(***************************************************************************)
(* ProgressTracker: data.  A logged exercise is a Python dict, modelled as *)
(* a record whose domain is the set of keys present.  Instants are counted *)
(* in ticks, TicksPerDay ticks to the day; day d is the proleptic          *)
(* Gregorian ordinal of datetime.date (day 1 is 0001-01-01).  An ISO       *)
(* timestamp string and the datetime it parses to are the same instant.    *)
(***************************************************************************)

TicksPerDay == 2

\* datetime.fromisoformat(w['date']).date(): the day of an instant
DateOf(t) == t \div TicksPerDay

\* timedelta(days=n)
Days(n) == n * TicksPerDay

\* Python's None
None == "None"

\* {} : the dict with no key
EmptyDict == [key \in {} |-> None]

\* d.get(key, default)
Get(d, key, default) == IF key \in DOMAIN d THEN d[key] ELSE default

\* str.lower() on the exercise names of the model
Lower(name) ==
    CASE name = "Squat" -> "squat"
      [] name = "SQUAT" -> "squat"
      [] name = "Bench" -> "bench"
      [] OTHER -> name

\* exercise.get('exercise', exercise.get('name', ''))
ExerciseName(exercise) ==
    IF "exercise" \in DOMAIN exercise THEN exercise.exercise
    ELSE IF "name" \in DOMAIN exercise THEN exercise.name
    ELSE ""

\* exercise_with_date = exercise.copy(); exercise_with_date['date'] = date
WithDate(exercise, date) ==
    [k \in DOMAIN exercise \cup {"date"} |->
        IF k = "date" THEN date ELSE exercise[k]]

\* _get_exercise_history, inner loop: the matching exercises of one workout
RECURSIVE MatchingExercises(_, _, _)
MatchingExercises(exercises, date, exercise_name) ==
    IF exercises = <<>>
    THEN <<>>
    ELSE LET exercise == Head(exercises)
             rest == MatchingExercises(Tail(exercises), date, exercise_name)
         IN  IF Lower(ExerciseName(exercise)) = Lower(exercise_name)
             THEN <<WithDate(exercise, date)>> \o rest
             ELSE rest

\* _get_exercise_history
RECURSIVE GetExerciseHistory(_, _)
GetExerciseHistory(log, exercise_name) ==
    IF log = <<>>
    THEN <<>>
    ELSE MatchingExercises(Get(Head(log), "exercises", <<>>),
                           Head(log).date, exercise_name)
            \o GetExerciseHistory(Tail(log), exercise_name)

\* f"PR on {exercise_name}! {prev_weight} -> {curr_weight}"
PrInsight(exercise_name, prev_weight, curr_weight) ==
    [kind |-> "PR", exercise |-> exercise_name,
     prev |-> prev_weight, curr |-> curr_weight]

\* f"Rep PR on {exercise_name}! {prev_reps} -> {curr_reps} reps"
RepPrInsight(exercise_name, prev_reps, curr_reps) ==
    [kind |-> "Rep PR", exercise |-> exercise_name,
     prev |-> prev_reps, curr |-> curr_reps]

\* "Solid workout! Keep pushing."
Encouragement == [kind |-> "Solid workout! Keep pushing."]

\* _generate_workout_insights, loop body: the insights of one exercise of
\* the logged entry.  prev is history[-2]; curr is the exercise as passed.
ExerciseInsights(log, exercise) ==
    LET exercise_name == ExerciseName(exercise)
        history == GetExerciseHistory(log, exercise_name)
    IN  IF Len(history) >= 2
        THEN LET prev == history[Len(history) - 1]
                 curr == exercise
                 prev_weight == Get(prev, "weight", 0)
                 curr_weight == Get(curr, "weight", 0)
                 prev_reps == Get(prev, "reps", 0)
                 curr_reps == Get(curr, "reps", 0)
             IN  (IF curr_weight > prev_weight
                  THEN <<PrInsight(exercise_name, prev_weight, curr_weight)>>
                  ELSE <<>>)
                 \o
                 (IF curr_weight = prev_weight /\ curr_reps > prev_reps
                  THEN <<RepPrInsight(exercise_name, prev_reps, curr_reps)>>
                  ELSE <<>>)
        ELSE <<>>

\* _generate_workout_insights, the loop over the logged exercises
RECURSIVE InsightsOf(_, _)
InsightsOf(log, exercises) ==
    IF exercises = <<>>
    THEN <<>>
    ELSE ExerciseInsights(log, Head(exercises))
            \o InsightsOf(log, Tail(exercises))

\* _generate_workout_insights
GenerateWorkoutInsights(log, exercises) ==
    LET insights == InsightsOf(log, exercises)
    IN  IF insights = <<>> THEN <<Encouragement>> ELSE insights

\* a _save_workouts that writes the newest entry only
SaveWorkouts_NewestOnly(log) == <<log[Len(log)]>>

\* _save_workouts: json.dump of the whole list; the document is kept as the
\* list that json.load reads from it
SaveWorkouts(log) == log

\* _load_workouts: the list read from workouts.json; [] when there is no
\* such file (the file <<>>)
LoadWorkouts(file) == file

\* log_workout: the entry built from the arguments and the clock
NewWorkout(exercises, notes, t) ==
    [date |-> t, exercises |-> exercises, notes |-> notes]

\* log_workout: the list after self.workouts.append(workout)
AppendWorkout(log, workout) == Append(log, workout)

\* ExerciseAfterCopy without the copy: the date is set on the logged object
ExerciseAfterCopy_NoCopy(exercise, date) == WithDate(exercise, date)

\* _get_exercise_history, lines 114-115: the logged exercise object after
\* its history entry is built.  The date is set on a copy, so the object
\* in self.workouts stays as it is.
ExerciseAfterCopy(exercise, date) == exercise

\* self.workouts after _get_exercise_history(exercise_name) has run
LogAfterHistory(log, exercise_name) ==
    [i \in DOMAIN log |->
        IF "exercises" \in DOMAIN log[i]
        THEN [log[i] EXCEPT !.exercises =
                [j \in DOMAIN @ |->
                    IF Lower(ExerciseName(@[j])) = Lower(exercise_name)
                    THEN ExerciseAfterCopy(@[j], log[i].date)
                    ELSE @[j]]]
        ELSE log[i]]

\* self.workouts after _generate_workout_insights(exercises) has run
RECURSIVE LogAfterInsights(_, _)
LogAfterInsights(log, exercises) ==
    IF exercises = <<>> THEN log
    ELSE LogAfterInsights(
            LogAfterHistory(log, ExerciseName(Head(exercises))),
            Tail(exercises))

\* log_workout
LogWorkout(exercises, notes) ==
    LET log == AppendWorkout(workouts, NewWorkout(exercises, notes, now))
    IN  /\ workouts' = LogAfterInsights(log, exercises)
        /\ workouts_file' = SaveWorkouts(log)
        /\ ret' = [op               |-> "log_workout",
                   status           |-> "logged",
                   workout_number   |-> Len(log),
                   exercises_logged |-> Len(exercises),
                   insights         |-> GenerateWorkoutInsights(log, exercises)]
        /\ UNCHANGED <<now, splits, plans, arg, agentVars>>


\* ProgressTracker(data_dir): a new tracker object on the same data
\* directory takes the place of the one in use
NewTracker ==
    /\ workouts' = LoadWorkouts(workouts_file)
    /\ ret' = [op |-> "__init__"]
    /\ UNCHANGED <<workouts_file, now, splits, plans, arg, agentVars>>

\* The clock advances between calls
Tick(step) ==
    /\ now' = now + step
    /\ UNCHANGED <<workouts, workouts_file, ret, splits, plans, arg, agentVars>>

-----------------------------------------------------------------------------
(***************************************************************************)
(* ProgressTracker: numbers.  The scores are Python floats; they are       *)
(* modelled exactly, as fractions in lowest terms, so that equal values    *)
(* are equal records.                                                      *)
(***************************************************************************)

RECURSIVE Gcd(_, _)
Gcd(a, b) == IF b = 0 THEN a ELSE Gcd(b, a % b)

\* The number n / d (d > 0), in lowest terms
Frac(n, d) ==
    LET g == Gcd(IF n < 0 THEN -n ELSE n, d)
    IN  [num |-> n \div g, den |-> d \div g]

\* An int as a number
Whole(n) == [num |-> n, den |-> 1]

\* x <= y, x < y on numbers
Leq(x, y) == x.num * y.den <= y.num * x.den
Less(x, y) == x.num * y.den < y.num * x.den

\* max(x, y), min(x, y) on numbers
MaxNum(x, y) == IF Leq(y, x) THEN x ELSE y
MinNum(x, y) == IF Leq(x, y) THEN x ELSE y

\* x + y, x - y on numbers
Plus(x, y) == Frac(x.num * y.den + y.num * x.den, x.den * y.den)
Minus(x, y) == Frac(x.num * y.den - y.num * x.den, x.den * y.den)

\* x * k for an int k
Times(x, k) == Frac(x.num * k, x.den)

\* round(x, 1) for x >= 0: the nearest multiple of 1/10, a tie going to the
\* even one
Round1(x) ==
    LET q == (x.num * 10) \div x.den
        r == (x.num * 10) % x.den
    IN  IF 2 * r < x.den THEN Frac(q, 10)
        ELSE IF 2 * r > x.den THEN Frac(q + 1, 10)
        ELSE IF q % 2 = 0 THEN Frac(q, 10) ELSE Frac(q + 1, 10)

\* sorted(list of ints)
RECURSIVE InsertSorted(_, _)
InsertSorted(s, x) ==
    IF s = <<>> THEN <<x>>
    ELSE IF x < Head(s) THEN <<x>> \o s
    ELSE <<Head(s)>> \o InsertSorted(Tail(s), x)

RECURSIVE Sorted(_)
Sorted(s) ==
    IF s = <<>> THEN <<>>
    ELSE InsertSorted(Sorted(SubSeq(s, 1, Len(s) - 1)), s[Len(s)])

-----------------------------------------------------------------------------
(***************************************************************************)
(* ProgressTracker: consistency, plateau, fatigue                          *)
(***************************************************************************)

\* a _calculate_consistency that takes the dates in the order of the list
WorkoutDates_Unsorted(ws) == [i \in DOMAIN ws |-> DateOf(ws[i].date)]

\* _calculate_consistency: dates = sorted([... .date() for w in workouts])
WorkoutDates(ws) == Sorted([i \in DOMAIN ws |-> DateOf(ws[i].date)])

\* _calculate_consistency: gaps
Gaps(dates) == [i \in 1..(Len(dates) - 1) |-> dates[i + 1] - dates[i]]

\* _calculate_consistency: the score for an average gap
GapScore(avg_gap) ==
    IF Leq(avg_gap, Whole(3)) THEN Whole(100)
    ELSE IF Leq(avg_gap, Whole(5)) THEN Whole(80)
    ELSE IF Leq(avg_gap, Whole(7)) THEN Whole(60)
    ELSE MaxNum(Whole(0), Minus(Whole(100), Times(avg_gap, 5)))

\* _calculate_consistency
CalculateConsistency(ws) ==
    IF ws = <<>> THEN Whole(0)
    ELSE IF Len(ws) < 2 THEN Whole(100)
    ELSE LET gaps == Gaps(WorkoutDates(ws))
             avg_gap == Frac(SumSeq(gaps), Len(gaps))
         IN  GapScore(avg_gap)

\* detect_plateau: the fixed recommendations
PlateauRecommendations ==
    << "Consider a deload week (reduce weight by 40%)",
       "Try changing rep range (if doing 8-12, try 4-6)",
       "Add a variation of this exercise",
       "Increase training frequency for this muscle",
       "Check your nutrition and sleep",
       "Try different tempo (slow negatives)" >>

\* a detect_plateau that takes its comment "Less than 5lb variation" literally
IsPlateau_Strict(weight_range) == weight_range < 5

\* detect_plateau: is_plateau = weight_range <= 5
IsPlateau(weight_range) == weight_range <= 5

\* detect_plateau
DetectPlateau(log, exercise_name) ==
    LET history == GetExerciseHistory(log, exercise_name)
    IN  IF Len(history) < 4
        THEN [op |-> "detect_plateau",
              plateau_detected |-> FALSE,
              message |-> "Not enough data to detect plateau (need 4+ sessions)"]
        ELSE LET recent == LastN(history, 4)
                 weights == [i \in DOMAIN recent |-> Get(recent[i], "weight", 0)]
                 weight_range == MaxSeq(weights) - MinSeq(weights)
                 is_plateau == IsPlateau(weight_range)
             IN  IF is_plateau
                 THEN [op |-> "detect_plateau",
                       plateau_detected |-> is_plateau,
                       sessions_analyzed |-> Len(recent),
                       weight_range |-> weight_range,
                       recent_weights |-> weights,
                       recommendations |-> PlateauRecommendations]
                 ELSE [op |-> "detect_plateau",
                       plateau_detected |-> is_plateau,
                       sessions_analyzed |-> Len(recent),
                       weight_range |-> weight_range,
                       recent_weights |-> weights,
                       message |-> "No plateau detected. Keep progressing!"]

\* [w for w in workouts if datetime.fromisoformat(w['date']) >= start]
RECURSIVE Since(_, _)
Since(log, start) ==
    IF log = <<>> THEN <<>>
    ELSE IF Head(log).date >= start
         THEN <<Head(log)>> \o Since(Tail(log), start)
         ELSE Since(Tail(log), start)

\* sum(ex.get('sets', 3) for ex in w.get('exercises', []))
RECURSIVE SetsOf(_)
SetsOf(exercises) ==
    IF exercises = <<>> THEN 0
    ELSE Get(Head(exercises), "sets", 3) + SetsOf(Tail(exercises))

\* estimate_fatigue: total_sets
RECURSIVE TotalSets(_)
TotalSets(ws) ==
    IF ws = <<>> THEN 0
    ELSE SetsOf(Get(Head(ws), "exercises", <<>>)) + TotalSets(Tail(ws))

\* estimate_fatigue: the value computed from a non-empty recent list
FatigueOf(recent) ==
    LET workout_count == Len(recent)
        total_sets == TotalSets(recent)
        workout_fatigue == MinNum(Frac(workout_count, 2), Whole(5))
        volume_fatigue == MinNum(Frac(total_sets, 50), Whole(5))
    IN  Round1(Plus(workout_fatigue, volume_fatigue))

\* estimate_fatigue at instant t
EstimateFatigue(log, t) ==
    IF log = <<>> THEN Whole(1)
    ELSE LET two_weeks_ago == t - Days(14)
             recent == Since(log, two_weeks_ago)
         IN  IF recent = <<>> THEN Whole(1) ELSE FatigueOf(recent)

-----------------------------------------------------------------------------
(***************************************************************************)
(* ProgressTracker: the calendar (datetime.date) and consecutive weeks     *)
(***************************************************************************)

\* calendar: leap years
IsLeap(y) == y % 4 = 0 /\ (y % 100 # 0 \/ y % 400 = 0)

\* the number of days before January 1st of year y
DaysBeforeYear(y) ==
    LET p == y - 1
    IN  p * 365 + p \div 4 - p \div 100 + p \div 400

\* the number of days in year y before the first of month m
DaysBeforeMonth(y, m) ==
    LET cum == <<0, 31, 59, 90, 120, 151, 181, 212, 243, 273, 304, 334>>
    IN  cum[m] + (IF m > 2 /\ IsLeap(y) THEN 1 ELSE 0)

\* date(y, m, d).toordinal()
Ymd2Ord(y, m, d) == DaysBeforeYear(y) + DaysBeforeMonth(y, m) + d

\* date.year of the day with ordinal n
YearOf(n) ==
    CHOOSE y \in (n \div 366)..(n \div 365 + 1) :
        DaysBeforeYear(y) < n /\ n <= DaysBeforeYear(y + 1)

\* date.weekday(): Monday is 0
Weekday(n) == (n + 6) % 7

\* the ordinal of the Monday that starts ISO week 1 of year y: the week of
\* the year's first Thursday
IsoWeek1Monday(y) ==
    LET firstday == Ymd2Ord(y, 1, 1)
        firstweekday == Weekday(firstday)
        week1monday == firstday - firstweekday
    IN  IF firstweekday > 3 THEN week1monday + 7 ELSE week1monday

\* date.isocalendar()[0] of the day with ordinal n: the ISO year
IsoYear(n) ==
    LET year == YearOf(n)
    IN  IF n < IsoWeek1Monday(year) THEN year - 1
        ELSE IF n >= IsoWeek1Monday(year + 1) THEN year + 1
        ELSE year

\* date.isocalendar()[1] of the day with ordinal n: the ISO week number
IsoWeek(n) == (n - IsoWeek1Monday(IsoYear(n))) \div 7 + 1

\* get_consecutive_weeks: the key of a workout, (date.year, isocalendar week)
WeekKey(workout) ==
    LET n == DateOf(workout.date)
    IN  <<YearOf(n), IsoWeek(n)>>

\* get_consecutive_weeks: weeks
WeekKeys(log) == {WeekKey(log[i]) : i \in DOMAIN log}

\* tuple order of Python on (year, week) pairs: a > b
PairGreater(a, b) == a[1] > b[1] \/ (a[1] = b[1] /\ a[2] > b[2])

\* sorted(weeks, reverse=True)
RECURSIVE SortedDescending(_)
SortedDescending(S) ==
    IF S = {} THEN <<>>
    ELSE LET top == CHOOSE a \in S : \A b \in S \ {a} : PairGreater(a, b)
         IN  <<top>> \o SortedDescending(S \ {top})

\* get_consecutive_weeks: the test of the loop for neighbours prev, curr
WeeksFollow(prev, curr) ==
    \/ (prev[1] = curr[1] /\ prev[2] - curr[2] = 1)
    \/ (prev[1] - curr[1] = 1 /\ prev[2] = 1 /\ curr[2] >= 51)

\* get_consecutive_weeks: the loop from index i on, with break
RECURSIVE CountRun(_, _)
CountRun(sorted_weeks, i) ==
    IF i > Len(sorted_weeks) THEN 0
    ELSE IF WeeksFollow(sorted_weeks[i - 1], sorted_weeks[i])
         THEN 1 + CountRun(sorted_weeks, i + 1)
         ELSE 0

\* get_consecutive_weeks
GetConsecutiveWeeks(log) ==
    IF log = <<>> THEN 0
    ELSE 1 + CountRun(SortedDescending(WeekKeys(log)), 2)

-----------------------------------------------------------------------------
(***************************************************************************)
(* ProgressTracker: personal records and reports                           *)
(***************************************************************************)

\* a get_personal_records whose comparison is 'weight >= record': the latest
\* of several entries with the highest weight is kept
RECURSIVE RecordsOfExercises_KeepsLatest(_, _, _)
RecordsOfExercises_KeepsLatest(records, exercises, date) ==
    IF exercises = <<>> THEN records
    ELSE LET ex == Head(exercises)
             name == ExerciseName(ex)
             weight == Get(ex, "weight", 0)
             entry == [weight |-> weight, reps |-> Get(ex, "reps", 0),
                       date |-> date]
             updated ==
                IF name \notin DOMAIN records
                THEN records @@ (name :> entry)
                ELSE IF weight >= records[name].weight
                THEN [records EXCEPT ![name] = entry]
                ELSE records
         IN  RecordsOfExercises_KeepsLatest(updated, Tail(exercises), date)

\* get_personal_records: the inner loop over one workout's exercises
RECURSIVE RecordsOfExercises(_, _, _)
RecordsOfExercises(records, exercises, date) ==
    IF exercises = <<>> THEN records
    ELSE LET ex == Head(exercises)
             name == ExerciseName(ex)
             weight == Get(ex, "weight", 0)
             entry == [weight |-> weight, reps |-> Get(ex, "reps", 0),
                       date |-> date]
             updated ==
                IF name \notin DOMAIN records
                THEN records @@ (name :> entry)
                ELSE IF weight > records[name].weight
                THEN [records EXCEPT ![name] = entry]
                ELSE records
         IN  RecordsOfExercises(updated, Tail(exercises), date)

\* get_personal_records: the loop over the log
RECURSIVE RecordsOfLog(_, _)
RecordsOfLog(records, log) ==
    IF log = <<>> THEN records
    ELSE RecordsOfLog(
            RecordsOfExercises(records, Get(Head(log), "exercises", <<>>),
                               Head(log).date),
            Tail(log))

\* get_personal_records: exercise name -> {weight, reps, date}
GetPersonalRecords(log) == RecordsOfLog(<<>>, log)

\* get_report: period_days.get(period, 30)
PeriodDays(period) ==
    CASE period = "week" -> 7
      [] period = "month" -> 30
      [] period = "quarter" -> 90
      [] period = "year" -> 365
      [] OTHER -> 30

\* _get_exercise_report: the entries of one workout
RECURSIVE ReportEntriesOf(_, _, _)
ReportEntriesOf(exercises, date, exercise_name) ==
    IF exercises = <<>> THEN <<>>
    ELSE LET ex == Head(exercises)
             rest == ReportEntriesOf(Tail(exercises), date, exercise_name)
         IN  IF Lower(ExerciseName(ex)) = Lower(exercise_name)
             THEN <<[date |-> date, weight |-> Get(ex, "weight", 0),
                     reps |-> Get(ex, "reps", 0),
                     sets |-> Get(ex, "sets", 0)]>> \o rest
             ELSE rest

\* _get_exercise_report: entries
RECURSIVE ReportEntries(_, _)
ReportEntries(ws, exercise_name) ==
    IF ws = <<>> THEN <<>>
    ELSE ReportEntriesOf(Get(Head(ws), "exercises", <<>>), Head(ws).date,
                         exercise_name)
            \o ReportEntries(Tail(ws), exercise_name)

\* an _get_exercise_report whose weights are those of all entries
TruthyWeights_All(entries) == [i \in DOMAIN entries |-> entries[i].weight]

\* weights = [e['weight'] for e in entries if e['weight']]
RECURSIVE TruthyWeights(_)
TruthyWeights(entries) ==
    IF entries = <<>> THEN <<>>
    ELSE IF Head(entries).weight # 0
         THEN <<Head(entries).weight>> \o TruthyWeights(Tail(entries))
         ELSE TruthyWeights(Tail(entries))

\* _get_exercise_report
GetExerciseReport(exercise_name, ws) ==
    LET entries == ReportEntries(ws, exercise_name)
        weights == TruthyWeights(entries)
        n == Len(weights)
    IN  IF entries = <<>>
        THEN [error |-> "No data for this exercise"]
        ELSE [total_sessions  |-> Len(entries),
              starting_weight |-> IF n > 0 THEN weights[1] ELSE 0,
              current_weight  |-> IF n > 0 THEN weights[n] ELSE 0,
              max_weight      |-> IF n > 0 THEN MaxSeq(weights) ELSE 0,
              weight_gain     |-> IF n >= 2 THEN weights[n] - weights[1] ELSE 0,
              trend           |-> IF n >= 2 /\ weights[n] > weights[1]
                                  THEN "improving" ELSE "stable",
              history         |-> entries]

\* _get_overall_summary: exercise_counts[name] += 1, a dict kept in
\* insertion order, as a list of <<name, count>>
RECURSIVE CountName(_, _)
CountName(counts, name) ==
    IF counts = <<>> THEN << <<name, 1>> >>
    ELSE IF Head(counts)[1] = name
         THEN << <<name, Head(counts)[2] + 1>> >> \o Tail(counts)
         ELSE <<Head(counts)>> \o CountName(Tail(counts), name)

RECURSIVE CountExercises(_, _)
CountExercises(counts, exercises) ==
    IF exercises = <<>> THEN counts
    ELSE CountExercises(CountName(counts, ExerciseName(Head(exercises))),
                        Tail(exercises))

\* _get_overall_summary: exercise_counts over the workouts
RECURSIVE ExerciseCounts(_, _)
ExerciseCounts(counts, ws) ==
    IF ws = <<>> THEN counts
    ELSE ExerciseCounts(
            CountExercises(counts, Get(Head(ws), "exercises", <<>>)),
            Tail(ws))

\* sorted(items, key=count, reverse=True): by count, descending, items
\* with equal counts in their original order
RECURSIVE InsertByCount(_, _)
InsertByCount(s, item) ==
    IF s = <<>> THEN <<item>>
    ELSE IF item[2] > Head(s)[2] THEN <<item>> \o s
    ELSE <<Head(s)>> \o InsertByCount(Tail(s), item)

RECURSIVE SortedByCount(_)
SortedByCount(items) ==
    IF items = <<>> THEN <<>>
    ELSE InsertByCount(SortedByCount(SubSeq(items, 1, Len(items) - 1)),
                       items[Len(items)])

\* _get_overall_summary
GetOverallSummary(ws) ==
    IF ws = <<>>
    THEN [message |-> "No workouts in this period"]
    ELSE LET exercise_counts == ExerciseCounts(<<>>, ws)
         IN  [workouts_completed |-> Len(ws),
              unique_exercises   |-> Len(exercise_counts),
              most_frequent      |-> Take(SortedByCount(exercise_counts), 5),
              consistency_score  |-> CalculateConsistency(ws)]

\* get_report at instant t; exercise is None for the overall summary
GetReport(log, exercise, period, t) ==
    LET start_date == t - Days(PeriodDays(period))
        period_workouts == Since(log, start_date)
    IN  IF exercise # None /\ exercise # ""
        THEN [op |-> "get_report", period |-> period,
              total_workouts |-> Len(period_workouts),
              start_date |-> start_date, end_date |-> t,
              exercise |-> exercise,
              exercise_data |-> GetExerciseReport(exercise, period_workouts)]
        ELSE [op |-> "get_report", period |-> period,
              total_workouts |-> Len(period_workouts),
              start_date |-> start_date, end_date |-> t,
              summary |-> GetOverallSummary(period_workouts)]

\* get_report(exercise, period)
Report(exercise, period) ==
    /\ ret' = GetReport(workouts, exercise, period, now)
    /\ arg' = <<exercise, period>>
    /\ UNCHANGED <<workouts, workouts_file, now, splits, plans, agentVars>>

\* detect_plateau(exercise_name)
Plateau(exercise_name) ==
    /\ ret' = DetectPlateau(workouts, exercise_name)
    /\ workouts' = LogAfterHistory(workouts, exercise_name)
    /\ arg' = <<exercise_name>>
    /\ UNCHANGED <<workouts_file, now, splits, plans, agentVars>>

\* get_consecutive_weeks()
ConsecutiveWeeks ==
    /\ ret' = [op |-> "get_consecutive_weeks",
               value |-> GetConsecutiveWeeks(workouts)]
    /\ UNCHANGED <<workouts, workouts_file, now, splits, plans, arg, agentVars>>

\* estimate_fatigue()
Fatigue ==
    /\ ret' = [op |-> "estimate_fatigue",
               value |-> EstimateFatigue(workouts, now)]
    /\ UNCHANGED <<workouts, workouts_file, now, splits, plans, arg, agentVars>>

\* get_personal_records()
PersonalRecords ==
    /\ ret' = [op |-> "get_personal_records",
               value |-> GetPersonalRecords(workouts)]
    /\ UNCHANGED <<workouts, workouts_file, now, splits, plans, arg, agentVars>>

-----------------------------------------------------------------------------
(***************************************************************************)
(* SpecGen: one generator object, generate_plan called up to MaxCalls      *)
(* times with arguments drawn from the sets below.                         *)
(***************************************************************************)

MaxCalls == 2

\* weeks: int = 4
DefaultWeeks == 4

\* "bro_split" is no key of splits
SplitArgs == {"full_body", "upper_lower", "ppl", "bro_split"}
ExperienceArgs == {"beginner", "intermediate"}
GoalArgs == {"strength", "toning"}
EquipmentArgs == {"full_gym", "home_gym", "bodyweight"}
LimitationArgs == {<<>>, <<"lower_back">>}
WeeksArgs == {DefaultWeeks}

GenArgs ==
    {PlanArgs(s, e, g, q, w, l) :
        s \in SplitArgs, e \in ExperienceArgs, g \in GoalArgs,
        q \in EquipmentArgs, w \in WeeksArgs, l \in LimitationArgs}

\* The instant at which the model's clock starts: Monday 2025-03-03, 00:00
StartInstant == Days(Ymd2Ord(2025, 3, 3))

\* No PersonalTrainerAgent is in play: the generator, the tracker or the
\* library is used on its own
NoAgent ==
    /\ user_profile = EmptyDict
    /\ profile_file = <<>>
    /\ plan_file = <<>>

\* ProgressTracker.__init__ on a new data directory (no workouts.json), and
\* no helper argument chosen
TrackerIdle ==
    /\ workouts = <<>>
    /\ workouts_file = <<>>
    /\ now = StartInstant
    /\ ret = [op |-> "none"]
    /\ arg = <<>>

InitGen ==
    /\ splits = NewSplits
    /\ plans = <<>>
    /\ TrackerIdle
    /\ NoAgent

Generate ==
    /\ Len(plans) < MaxCalls
    /\ \E a \in GenArgs : GeneratePlan(a)

NextGen == Generate

SpecGen == InitGen /\ [][NextGen]_vars

-----------------------------------------------------------------------------
(* Claims about the generator, checked under SpecGen *)

\* C1: after any sequence of generate_plan calls, every split template held
\* by the generator has exactly the sessions, slot order, slot names and
\* slot fields it had when the generator was constructed.
C1_TemplatesNeverMutated == splits = NewSplits

\* C2: of two successive generate_plan calls with the same split, the plan
\* returned by the first has, after the second call, the content it had at
\* the moment it was returned, whatever the second call's other arguments.
C2_FirstPlanKeepsItsContent ==
    LET n == Len(plans)
    IN  (n >= 2 /\ plans[n].args.split_type = plans[n - 1].args.split_type)
            => Current(plans[n - 1]) = Returned(plans[n - 1])

\* C3: the plan returned by generate_plan(args), after any sequence of
\* earlier calls, equals the plan a freshly constructed generator returns
\* for the same arguments.
C3_StatelessPerCall ==
    \A i \in 1..Len(plans) :
        Returned(plans[i]) = GeneratedPlan(NewSplits, plans[i].args)

-----------------------------------------------------------------------------
(***************************************************************************)
(* SpecTracker: one tracker on a new data directory; every public method   *)
(* is called in any order, up to MaxLog log_workout calls, while the clock *)
(* moves on in steps of eight days.                                        *)
(***************************************************************************)

MaxLog == 3

\* How far the clock of SpecTracker runs, in days
TrackerDays == 16

SquatSession ==
    << [exercise |-> "Squat", weight |-> 100, reps |-> 8, sets |-> 3] >>

MixedSession ==
    << [name |-> "squat", weight |-> 105, reps |-> 8],
       [exercise |-> "Bench", reps |-> 10, sets |-> 4],
       [exercise |-> "SQUAT", weight |-> 105, reps |-> 9, sets |-> 2] >>

\* the (exercises, notes) arguments of log_workout
TrackerLogArgs ==
    { <<SquatSession, None>>, <<MixedSession, "felt strong">>, <<<<>>, None>> }

\* A ProgressTracker used on its own: no generator object exists
NoGenerator ==
    /\ splits = <<>>
    /\ plans = <<>>

InitTracker ==
    /\ NoGenerator
    /\ TrackerIdle
    /\ NoAgent

TrackerLog ==
    /\ Len(workouts) < MaxLog
    /\ \E a \in TrackerLogArgs : LogWorkout(a[1], a[2])

TrackerReport ==
    \E exercise \in {None, "squat"}, period \in {"week", "fortnight"} :
        Report(exercise, period)

TrackerPlateau == \E name \in {"Squat", "bench"} : Plateau(name)

TrackerAdvance ==
    /\ now + Days(8) <= StartInstant + Days(TrackerDays)
    /\ Tick(Days(8))

NextTracker ==
    \/ TrackerLog
    \/ TrackerReport
    \/ TrackerPlateau
    \/ ConsecutiveWeeks
    \/ Fatigue
    \/ PersonalRecords
    \/ TrackerAdvance

SpecTracker == InitTracker /\ [][NextTracker]_vars

\* C4: the log is append-only.  A log_workout call appends exactly one
\* entry, built from its arguments and the clock, at the end of the log and
\* returns the new length as the workout number; every other call (report,
\* detect_plateau, consecutive_weeks, estimate_fatigue, personal_records)
\* leaves the log as it is; so no entry is ever removed, moved or altered.
C4_LogAppendOnly ==
    [][ IF TrackerLog
        THEN /\ \E a \in TrackerLogArgs :
                    workouts' = Append(workouts, NewWorkout(a[1], a[2], now))
             /\ ret'.op = "log_workout"
             /\ ret'.workout_number = Len(workouts) + 1
        ELSE workouts' = workouts ]_vars

\* C4 witness: three entries were logged, queries ran in between, and the
\* last call was a plateau check that had four squat entries to look at.
C4_Witness ==
    /\ Len(workouts) = 3
    /\ ret.op = "detect_plateau"
    /\ "sessions_analyzed" \in DOMAIN ret
    /\ workouts[1].date < workouts[3].date

-----------------------------------------------------------------------------
(***************************************************************************)
(* SpecInsights: log_workout called up to MaxLog times with entries of up  *)
(* to two exercises, among them the same exercise twice, under names that  *)
(* differ in case, with and without a weight.                              *)
(***************************************************************************)

Lift(name, weight, reps) ==
    [exercise |-> name, weight |-> weight, reps |-> reps, sets |-> 3]

InsightExercises ==
    {Lift(n, wr[1], wr[2]) :
        n \in {"Squat", "squat"}, wr \in {<<100, 8>>, <<100, 10>>, <<105, 8>>}}
    \cup {Lift("Bench", 100, 8), [name |-> "Squat", reps |-> 8]}

InsightLogArgs ==
    {<<>>} \cup {<<e>> : e \in InsightExercises}
           \cup {<<e, f>> : e \in InsightExercises, f \in InsightExercises}

InsightsLog ==
    /\ Len(workouts) < MaxLog
    /\ \E exercises \in InsightLogArgs : LogWorkout(exercises, None)

NextInsights == InsightsLog

SpecInsights == InitTracker /\ [][NextInsights]_vars

\* The insight the claim C5 describes for one logged exercise: from the two
\* most recent data points of its history
RecentPointsInsight(log, exercise) ==
    LET exercise_name == ExerciseName(exercise)
        history == GetExerciseHistory(log, exercise_name)
        n == Len(history)
    IN  IF n < 2 THEN <<>>
        ELSE LET older == history[n - 1]
                 newest == history[n]
             IN  IF Get(newest, "weight", 0) > Get(older, "weight", 0)
                 THEN <<PrInsight(exercise_name, Get(older, "weight", 0),
                                  Get(newest, "weight", 0))>>
                 ELSE IF Get(newest, "weight", 0) = Get(older, "weight", 0)
                         /\ Get(newest, "reps", 0) > Get(older, "reps", 0)
                 THEN <<RepPrInsight(exercise_name, Get(older, "reps", 0),
                                     Get(newest, "reps", 0))>>
                 ELSE <<>>

RECURSIVE RecentPointsInsights(_, _)
RecentPointsInsights(log, exercises) ==
    IF exercises = <<>> THEN <<>>
    ELSE RecentPointsInsight(log, Head(exercises))
            \o RecentPointsInsights(log, Tail(exercises))

\* C5: log_workout returns, for each exercise of the new entry in input
\* order, the insight given by the two most recent data points of that
\* exercise's case-insensitive history (heavier: PR; same weight and more
\* reps: rep PR; else none), also when the exercise occurs more than once in
\* the entry; with no insight at all, the single encouragement message.
C5_InsightsFromTwoMostRecent ==
    ret.op = "log_workout" =>
        LET exercises == workouts[Len(workouts)].exercises
            claimed == RecentPointsInsights(workouts, exercises)
        IN  ret.insights = IF claimed = <<>> THEN <<Encouragement>> ELSE claimed

\* The names of the exercises of an entry, lower case
LoweredNames(exercises) ==
    {Lower(ExerciseName(exercises[i])) : i \in DOMAIN exercises}

\* C5 where it holds: entries that name no exercise twice
C5_HoldsWithoutRepeats ==
    ret.op = "log_workout" =>
        LET exercises == workouts[Len(workouts)].exercises
            claimed == RecentPointsInsights(workouts, exercises)
        IN  Cardinality(LoweredNames(exercises)) = Len(exercises) =>
                ret.insights =
                    IF claimed = <<>> THEN <<Encouragement>> ELSE claimed

\* C6: whenever log_workout returns a PR insight for an exercise, the
\* logged weight is strictly greater than the weight of every entry of that
\* exercise (case-insensitive) logged by the earlier calls.
C6_PrIsNewMaximum ==
    ret.op = "log_workout" =>
        LET earlier == SubSeq(workouts, 1, Len(workouts) - 1)
        IN  \A i \in DOMAIN ret.insights :
                ret.insights[i].kind = "PR" =>
                    LET history ==
                            GetExerciseHistory(earlier, ret.insights[i].exercise)
                    IN  \A j \in DOMAIN history :
                            ret.insights[i].curr > Get(history[j], "weight", 0)

-----------------------------------------------------------------------------
(***************************************************************************)
(* SpecPlateau: a tracker constructed on a data directory that may already *)
(* hold a log written earlier; up to PlateauLog sessions of one exercise   *)
(* are logged, and detect_plateau is called in between.                    *)
(***************************************************************************)

PlateauLog == 4

\* logs found in workouts.json at construction
EarlierLogs ==
    { <<>>,
      << NewWorkout(<<Lift("Squat", 220, 5)>>, None, StartInstant - Days(7)) >>,
      << NewWorkout(<<Lift("Bench", 150, 8), Lift("squat", 150, 8)>>,
                    "first session", StartInstant - Days(3)) >> }

PlateauWeights == {198, 200, 201, 202, 210, 215, 220}

PlateauLogArgs ==
    { <<Lift("Squat", w, 5)>> : w \in PlateauWeights }
        \cup { << [name |-> "squat", reps |-> 5] >> }

\* ProgressTracker.__init__: self.workouts = self._load_workouts()
InitPlateau ==
    /\ NoGenerator
    /\ workouts_file \in EarlierLogs
    /\ workouts = workouts_file
    /\ now = StartInstant
    /\ ret = [op |-> "none"]
    /\ arg = <<>>
    /\ NoAgent

\* the number of entries logged since construction
LoggedSinceStart(log) ==
    Cardinality({i \in DOMAIN log : log[i].date >= StartInstant})

PlateauLogCall ==
    /\ LoggedSinceStart(workouts) < PlateauLog
    /\ \E exercises \in PlateauLogArgs : LogWorkout(exercises, None)

PlateauCheck == \E name \in {"SQUAT", "Bench"} : Plateau(name)

NextPlateau == PlateauLogCall \/ PlateauCheck

SpecPlateau == InitPlateau /\ [][NextPlateau]_vars

\* The weights (a missing weight is 0) of the entries of the log whose name
\* equals the given one up to case, oldest first
RECURSIVE WeightsLogged(_, _)
WeightsLogged(log, name) ==
    IF log = <<>> THEN <<>>
    ELSE LET exercises == Head(log).exercises
             hits == {i \in DOMAIN exercises :
                        Lower(ExerciseName(exercises[i])) = Lower(name)}
             RECURSIVE Pick(_)
             Pick(i) ==
                IF i > Len(exercises) THEN <<>>
                ELSE (IF i \in hits
                      THEN <<IF "weight" \in DOMAIN exercises[i]
                             THEN exercises[i].weight ELSE 0>>
                      ELSE <<>>) \o Pick(i + 1)
         IN  Pick(1) \o WeightsLogged(Tail(log), name)

-----------------------------------------------------------------------------
(***************************************************************************)
(* SpecWeeks: a tracker constructed at one of several dates, some of them  *)
(* shortly before a turn of the year; sessions are logged while the clock  *)
(* advances by days and weeks, and get_consecutive_weeks is called.        *)
(***************************************************************************)

WeeksLog == 3
WeeksSpan == 24

\* 2024-12-16 is the Monday of ISO week 51 of 2024 (2024-12-30 belongs to
\* ISO week 1 of 2025); 2022-12-19 is the Monday of ISO week 51 of 2022
\* (2023-01-01 belongs to ISO week 52 of 2022); 2025-03-03 is mid-year
WeeksStarts ==
    { Days(Ymd2Ord(2024, 12, 16)),
      Days(Ymd2Ord(2022, 12, 19)),
      StartInstant }

WeeksSteps == {1, 7}

InitWeeks ==
    /\ NoGenerator
    /\ workouts = <<>>
    /\ workouts_file = <<>>
    /\ now \in WeeksStarts
    /\ ret = [op |-> "none"]
    /\ arg = <<>>
    /\ NoAgent

WeeksLogCall ==
    /\ Len(workouts) < WeeksLog
    /\ LogWorkout(SquatSession, None)

\* the instant at which the tracker of this run was constructed
WeeksStartOf(t) == CHOOSE s \in WeeksStarts : s <= t /\ t <= s + Days(WeeksSpan)

WeeksAdvance ==
    \E d \in WeeksSteps :
        /\ now + Days(d) <= WeeksStartOf(now) + Days(WeeksSpan)
        /\ Tick(Days(d))

NextWeeks == WeeksLogCall \/ WeeksAdvance \/ ConsecutiveWeeks

SpecWeeks == InitWeeks /\ [][NextWeeks]_vars

\* The ISO week of a day, as the pair (ISO year, ISO week number)
IsoWeekOf(n) == <<IsoYear(n), IsoWeek(n)>>

\* The ISO week after (y, w): (y, w + 1), or (y + 1, 1) when w is the last
\* ISO week of y.  The last ISO week of y holds December 28th.
NextIsoWeek(yw) ==
    IF yw[2] = IsoWeek(Ymd2Ord(yw[1], 12, 28))
    THEN <<yw[1] + 1, 1>>
    ELSE <<yw[1], yw[2] + 1>>

\* The ISO week before (y, w)
PrevIsoWeek(yw) ==
    IF yw[2] = 1
    THEN <<yw[1] - 1, IsoWeek(Ymd2Ord(yw[1] - 1, 12, 28))>>
    ELSE <<yw[1], yw[2] - 1>>

\* The length of the run of ISO weeks of S that ends at yw
RECURSIVE IsoRun(_, _)
IsoRun(S, yw) == IF yw \in S THEN 1 + IsoRun(S, PrevIsoWeek(yw)) ELSE 0

\* The streak of a log: the run of consecutive ISO weeks that ends at the
\* week of the most recent workout
IsoStreak(log) ==
    IF log = <<>> THEN 0
    ELSE LET S == {IsoWeekOf(DateOf(log[i].date)) : i \in DOMAIN log}
             latest == CHOOSE i \in DOMAIN log :
                          \A j \in DOMAIN log : log[j].date <= log[i].date
         IN  IsoRun(S, IsoWeekOf(DateOf(log[latest].date)))

\* C8: consecutive_weeks keys every workout by (ISO year, ISO week), and
\* returns the length of the run of consecutive ISO weeks that ends at the
\* most recent workout's week, stopping at the first gap, also across a year
\* boundary and whatever calendar dates the workouts fall on; an empty log
\* gives 0.
C8_StreakOfIsoWeeks ==
    ret.op = "get_consecutive_weeks" => ret.value = IsoStreak(workouts)

\* C8, within one calendar year that is also one ISO year: the result is the
\* run of consecutive ISO weeks
C8_HoldsWithinOneYear ==
    (/\ ret.op = "get_consecutive_weeks"
     /\ \A i \in DOMAIN workouts :
            /\ YearOf(DateOf(workouts[i].date)) = IsoYear(DateOf(workouts[i].date))
            /\ YearOf(DateOf(workouts[i].date)) = YearOf(DateOf(workouts[1].date)))
        => ret.value = IsoStreak(workouts)

-----------------------------------------------------------------------------
(***************************************************************************)
(* SpecFatigue: sessions of different volume are logged while the clock    *)
(* advances, by single ticks and by weeks, and estimate_fatigue is called. *)
(***************************************************************************)

FatigueLog == 2
FatigueDays == 16

\* 5 exercises of 5 sets
VolumeSession ==
    << [exercise |-> "Squat", weight |-> 100, reps |-> 5, sets |-> 5],
       [exercise |-> "Bench", weight |-> 80, reps |-> 5, sets |-> 5],
       [exercise |-> "Row", weight |-> 60, reps |-> 5, sets |-> 5],
       [exercise |-> "Press", weight |-> 40, reps |-> 5, sets |-> 5],
       [exercise |-> "Deadlift", weight |-> 120, reps |-> 5, sets |-> 5] >>

\* the middle one has no 'sets': 3 are assumed
FatigueLogArgs == {<<>>, <<[name |-> "Squat", reps |-> 8]>>, VolumeSession}

FatigueLogCall ==
    /\ Len(workouts) < FatigueLog
    /\ \E exercises \in FatigueLogArgs : LogWorkout(exercises, None)

FatigueAdvance ==
    \E step \in {1, Days(7)} :
        /\ now + step <= StartInstant + Days(FatigueDays)
        /\ Tick(step)

NextFatigue == FatigueLogCall \/ FatigueAdvance \/ Fatigue

SpecFatigue == InitTracker /\ [][NextFatigue]_vars

\* no entry of the log lies within the 14 days before instant t
NoneWithinTwoWeeks(log, t) ==
    \A i \in DOMAIN log : log[i].date < t - Days(14)

\* C9: estimate_fatigue returns a value on the 1-10 scale for every log and
\* every current time: never below 1, never above 10, and exactly 1 when no
\* entry lies within the last 14 days.
C9_FatigueOnScale ==
    [][ Fatigue =>
            /\ Leq(Whole(1), ret'.value)
            /\ Leq(ret'.value, Whole(10))
            /\ NoneWithinTwoWeeks(workouts, now) => ret'.value = Whole(1)
      ]_vars

\* C9, the parts that hold: never above 10, and exactly 1 when no entry
\* lies within the last 14 days
C9_HoldsForUpperEndAndNoRecent ==
    [][ Fatigue =>
            /\ Leq(ret'.value, Whole(10))
            /\ NoneWithinTwoWeeks(workouts, now) => ret'.value = Whole(1)
      ]_vars


\* C29: at a fixed current time, logging a workout never lowers the
\* estimated fatigue: for every log and every new entry, estimate_fatigue
\* after the log call is greater than or equal to estimate_fatigue before it
\* (including when the log was empty or had no entry in the last 14 days).
C29_LoggingNeverLowersFatigue ==
    [][ FatigueLogCall =>
            Leq(EstimateFatigue(workouts, now), EstimateFatigue(workouts', now'))
      ]_vars

\* C29, what does hold: the same for a log that has an entry in the last 14
\* days when the call begins
C29_HoldsWithRecentEntry ==
    [][ (FatigueLogCall /\ ~NoneWithinTwoWeeks(workouts, now)) =>
            Leq(EstimateFatigue(workouts, now), EstimateFatigue(workouts', now'))
      ]_vars

-----------------------------------------------------------------------------
(***************************************************************************)
(* SpecConsistency: _calculate_consistency applied to a list of workouts   *)
(* whose dates come in any order.                                          *)
(***************************************************************************)

ConsistencyLen == 3

\* two of the instants lie on the same day
ConsistencyInstants ==
    { StartInstant, StartInstant + Days(1), StartInstant + Days(1) + 1,
      StartInstant + Days(2), StartInstant + Days(7),
      StartInstant + Days(10), StartInstant + Days(15),
      StartInstant + Days(24) }

ConsistencyArgs ==
    UNION { [1..n -> {NewWorkout(<<>>, None, t) : t \in ConsistencyInstants}]
                : n \in 0..ConsistencyLen }

InitConsistency ==
    /\ NoGenerator
    /\ workouts = <<>>
    /\ workouts_file = <<>>
    /\ now = StartInstant + Days(24)
    /\ ret = [op |-> "none"]
    /\ arg \in ConsistencyArgs
    /\ NoAgent

\* self._calculate_consistency(workouts)
Consistency ==
    /\ ret' = [op |-> "_calculate_consistency",
               value |-> CalculateConsistency(arg)]
    /\ UNCHANGED <<workouts, workouts_file, now, splits, plans, arg, agentVars>>

NextConsistency == Consistency

SpecConsistency == InitConsistency /\ [][NextConsistency]_vars

\* The score the rule gives for a list ws of two or more workouts: with avg
\* the mean difference in days of neighbouring dates in ascending order
RuleScore(ws) ==
    LET n == Len(ws)
        day == [i \in 1..n |-> DateOf(ws[i].date)]
        asc == CHOOSE p \in Permutations(1..n) :
                   \A i \in 1..(n - 1) : day[p[i]] <= day[p[i + 1]]
        total == SumSeq([i \in 1..(n - 1) |-> day[asc[i + 1]] - day[asc[i]]])
        avg == Frac(total, n - 1)
    IN  IF Leq(avg, Whole(3)) THEN Whole(100)
        ELSE IF Leq(avg, Whole(5)) THEN Whole(80)
        ELSE IF Leq(avg, Whole(7)) THEN Whole(60)
        ELSE IF Leq(Frac(100 * avg.den - 5 * avg.num, avg.den), Whole(0))
             THEN Whole(0)
             ELSE Frac(100 * avg.den - 5 * avg.num, avg.den)

\* C10: the consistency score is 0 for no workouts and 100 for exactly one;
\* otherwise, with avg the mean gap in days between consecutive workout
\* dates after sorting, it is 100 if avg <= 3, 80 if avg <= 5, 60 if
\* avg <= 7 and max(0, 100 - 5 avg) otherwise; it always lies in 0..100 and
\* does not depend on the order of the entries; workouts on consecutive days
\* give 100, workouts 10 days apart give 50.
C10_ConsistencyScore ==
    ret.op = "_calculate_consistency" =>
        LET n == Len(arg)
            day == [i \in 1..n |-> DateOf(arg[i].date)]
        IN  /\ n = 0 => ret.value = Whole(0)
            /\ n = 1 => ret.value = Whole(100)
            /\ n >= 2 => ret.value = RuleScore(arg)
            /\ Leq(Whole(0), ret.value) /\ Leq(ret.value, Whole(100))
            /\ \A p \in Permutations(1..n) :
                   CalculateConsistency([i \in 1..n |-> arg[p[i]]]) = ret.value
            /\ (n >= 2 /\ \A i \in 1..(n - 1) : day[i + 1] = day[i] + 1)
                    => ret.value = Whole(100)
            /\ (n >= 2 /\ \A i \in 1..(n - 1) : day[i + 1] = day[i] + 10)
                    => ret.value = Whole(50)

\* C10 witness: three workouts listed out of order, 15, 0 and 2 days after
\* the first date, score 100 - 5 * 7.5 = 62.5
C10_Witness ==
    /\ ret.op = "_calculate_consistency"
    /\ Len(arg) = 3
    /\ arg[1].date = StartInstant + Days(15)
    /\ arg[2].date = StartInstant
    /\ arg[3].date = StartInstant + Days(2)
    /\ ret.value = Frac(125, 2)

-----------------------------------------------------------------------------
(***************************************************************************)
(* SpecRecords: sessions with one or two lifts, some under the same name,  *)
(* some without weight or without name, are logged while the clock moves   *)
(* on, and get_personal_records is called.                                 *)
(***************************************************************************)

RecordsLog == 3
RecordsDays == 2

RecordsLogArgs ==
    { <<Lift("Squat", 100, 8)>>,
      <<Lift("Squat", 105, 5)>>,
      <<Lift("Squat", 105, 3)>>,
      <<Lift("squat", 110, 1)>>,
      <<[name |-> "Squat", reps |-> 12]>>,
      <<[weight |-> 60, sets |-> 2]>>,
      <<Lift("Squat", 100, 5), Lift("Bench", 80, 8), Lift("Squat", 100, 6)>>,
      <<>> }

RecordsLogCall ==
    /\ Len(workouts) < RecordsLog
    /\ \E exercises \in RecordsLogArgs : LogWorkout(exercises, None)

RecordsAdvance ==
    /\ now + Days(1) <= StartInstant + Days(RecordsDays)
    /\ Tick(Days(1))

NextRecords == RecordsLogCall \/ RecordsAdvance \/ PersonalRecords

SpecRecords == InitTracker /\ [][NextRecords]_vars

\* All lifts of a log in log order, each as the record (name, weight, reps,
\* date) it was logged with: a missing name is '', a missing weight or
\* number of reps is 0
RECURSIVE LiftsLogged(_)
LiftsLogged(log) ==
    IF log = <<>> THEN <<>>
    ELSE LET w == Head(log)
         IN  [i \in DOMAIN w.exercises |->
                [name |-> ExerciseName(w.exercises[i]),
                 weight |-> IF "weight" \in DOMAIN w.exercises[i]
                            THEN w.exercises[i].weight ELSE 0,
                 reps |-> IF "reps" \in DOMAIN w.exercises[i]
                          THEN w.exercises[i].reps ELSE 0,
                 date |-> w.date]]
             \o LiftsLogged(Tail(log))

\* C11: personal_records returns, for every exercise name that occurs in
\* the log, the weight, reps and date of the entry with the highest weight
\* logged under that name; among several entries with the same highest
\* weight the earliest in log order is kept.
C11_RecordIsEarliestHighest ==
    ret.op = "get_personal_records" =>
        LET lifts == LiftsLogged(workouts)
            names == {lifts[i].name : i \in DOMAIN lifts}
            under(name) == {i \in DOMAIN lifts : lifts[i].name = name}
            highest(name) ==
                {i \in under(name) :
                    \A j \in under(name) : lifts[j].weight <= lifts[i].weight}
            kept(name) ==
                CHOOSE i \in highest(name) : \A j \in highest(name) : i <= j
        IN  /\ DOMAIN ret.value = names
            /\ \A name \in names :
                  ret.value[name] =
                      [weight |-> lifts[kept(name)].weight,
                       reps |-> lifts[kept(name)].reps,
                       date |-> lifts[kept(name)].date]

\* C11 witness: Squat logged with 100, then 105 for 5 reps, then a day
\* later 105 for 3 reps: the record is the 105 for 5 of the first day
C11_Witness ==
    /\ ret.op = "get_personal_records"
    /\ Len(workouts) = 3
    /\ workouts[1].exercises = <<Lift("Squat", 100, 8)>>
    /\ workouts[2].exercises = <<Lift("Squat", 105, 5)>>
    /\ workouts[3].exercises = <<Lift("Squat", 105, 3)>>
    /\ workouts[3].date > workouts[2].date
    /\ ret.value["Squat"] =
          [weight |-> 105, reps |-> 5, date |-> workouts[2].date]

-----------------------------------------------------------------------------
(***************************************************************************)
(* SpecReport: squat and bench sessions, some of them without weight, are  *)
(* logged over ReportDays days, and the report of one exercise is asked    *)
(* for, over the last week and over the last month.                        *)
(***************************************************************************)

ReportLog == 3
ReportDays == 8

ReportLogArgs ==
    { <<Lift("Squat", 100, 8)>>,
      <<Lift("squat", 105, 8)>>,
      <<Lift("Squat", 95, 8)>>,
      <<[name |-> "Squat", reps |-> 20, sets |-> 2]>>,
      <<Lift("Bench", 80, 8), Lift("Squat", 110, 3)>> }

ReportLogCall ==
    /\ Len(workouts) < ReportLog
    /\ \E exercises \in ReportLogArgs : LogWorkout(exercises, None)

ReportAdvance ==
    /\ now + Days(4) <= StartInstant + Days(ReportDays)
    /\ Tick(Days(4))

\* "Deadlift" is never logged
ReportCall ==
    \E exercise \in {"SQUAT", "Deadlift"}, period \in {"week", "month"} :
        Report(exercise, period)

NextReport == ReportLogCall \/ ReportAdvance \/ ReportCall

SpecReport == InitTracker /\ [][NextReport]_vars

\* The weights (a missing weight is 0), in log order, of the lifts that a
\* report counts: logged at or after its start date under the name asked
\* for, letter case aside
ReportedWeights(log, report) ==
    LET InReport(lift) ==
            /\ lift.date >= report.start_date
            /\ Lower(lift.name) = Lower(report.exercise)
        lifts == SelectSeq(LiftsLogged(log), InReport)
    IN  [i \in DOMAIN lifts |-> lifts[i].weight]

\* The per-exercise figures computed from n data points w
ReportFigures(data, total, w) ==
    LET n == Len(w)
    IN  /\ data.total_sessions = total
        /\ data.starting_weight = (IF n > 0 THEN w[1] ELSE 0)
        /\ data.current_weight = (IF n > 0 THEN w[n] ELSE 0)
        /\ data.max_weight =
              (IF n > 0 THEN CHOOSE m \in {w[i] : i \in 1..n} :
                                \A i \in 1..n : w[i] <= m
               ELSE 0)
        /\ data.weight_gain = (IF n >= 2 THEN w[n] - w[1] ELSE 0)
        /\ data.trend = (IF n >= 2 /\ w[n] > w[1] THEN "improving"
                         ELSE "stable")

\* C12: report(exercise, period) over the in-period entries that match the
\* exercise name case-insensitively, taken in log order: total_sessions is
\* their count, starting/current/max weight are the weight of the first
\* entry, of the last entry and the maximum weight of those entries,
\* weight_gain is last - first (0 with fewer than 2 data points), trend is
\* 'improving' iff there are at least 2 data points and last > first and
\* 'stable' otherwise; with no matching in-period entry an error-marked
\* result is returned instead.
C12_ReportOverEntries ==
    (ret.op = "get_report" /\ "exercise" \in DOMAIN ret) =>
        LET w == ReportedWeights(workouts, ret)
        IN  IF w = <<>>
            THEN DOMAIN ret.exercise_data = {"error"}
            ELSE /\ "error" \notin DOMAIN ret.exercise_data
                 /\ ReportFigures(ret.exercise_data, Len(w), w)

\* C12 as the code has it: total_sessions counts all matching in-period
\* entries, while the data points of starting/current/max weight,
\* weight_gain and trend are only the entries with a weight other than 0
\* (an entry logged without weight is no data point); all five are 0 or
\* 'stable' when there is none.
C12_ReportOverWeighedEntries ==
    (ret.op = "get_report" /\ "exercise" \in DOMAIN ret) =>
        LET w == ReportedWeights(workouts, ret)
            Weighed(x) == x # 0
        IN  IF w = <<>>
            THEN DOMAIN ret.exercise_data = {"error"}
            ELSE /\ "error" \notin DOMAIN ret.exercise_data
                 /\ ReportFigures(ret.exercise_data, Len(w),
                                  SelectSeq(w, Weighed))

\* C12 witness: a report over a squat without weight, then 100, then 105:
\* 3 sessions, starting weight 100, gain 5, improving
C12_Witness ==
    /\ ret.op = "get_report"
    /\ arg = <<"SQUAT", "month">>
    /\ ReportedWeights(workouts, ret) = <<0, 100, 105>>
    /\ ret.exercise_data.total_sessions = 3
    /\ ret.exercise_data.starting_weight = 100
    /\ ret.exercise_data.weight_gain = 5
    /\ ret.exercise_data.trend = "improving"

-----------------------------------------------------------------------------
(***************************************************************************)
(* ExerciseLibrary.  A Python str that the code takes apart (a name that   *)
(* is looked up, a key of the table, an alternative) is the sequence of    *)
(* its characters; the other texts of a record are plain strings.          *)
(***************************************************************************)

UpperLetters ==
    << "A", "B", "C", "D", "E", "F", "G", "H", "I", "J", "K", "L", "M", "N", "O", "P", "Q", "R", "S", "T", "U", "V", "W", "X", "Y", "Z" >>

LowerLetters ==
    << "a", "b", "c", "d", "e", "f", "g", "h", "i", "j", "k", "l", "m", "n", "o", "p", "q", "r", "s", "t", "u", "v", "w", "x", "y", "z" >>

\* str.lower() on one character
LowerChar(c) ==
    IF \E i \in DOMAIN UpperLetters : UpperLetters[i] = c
    THEN LowerLetters[CHOOSE i \in DOMAIN UpperLetters : UpperLetters[i] = c]
    ELSE c

\* str.lower()
LowerStr(str) == [i \in DOMAIN str |-> LowerChar(str[i])]

\* str.replace(old, new) for single characters old and new
ReplaceChar(str, old, new) ==
    [i \in DOMAIN str |-> IF str[i] = old THEN new ELSE str[i]]

\* sub in str
Contains(sub, str) ==
    \E i \in 0..(Len(str) - Len(sub)) : SubSeq(str, i + 1, i + Len(sub)) = sub

\* _build_exercise_database: the table in the order of the dict
BuildExerciseDatabase ==
 <<
    [ key |-> <<"b","e","n","c","h","_","p","r","e","s","s">>,
      record |->
        [ name |-> "Bench Press",
          primary_muscles |-> <<"chest", "triceps", "front_delts">>,
          type |-> "compound",
          equipment |-> <<"barbell", "bench">>,
          instructions |->
            << "Lie on bench with eyes under the bar",
               "Grip bar slightly wider than shoulder width",
               "Unrack and position bar over chest",
               "Lower bar to mid-chest with control",
               "Press bar up and slightly back",
               "Lock out arms at top" >>,
          form_cues |->
            << "Keep shoulder blades pinched together",
               "Maintain arch in lower back",
               "Keep feet flat on floor",
               "Elbows at 45-75 degree angle",
               "Touch chest, don't bounce" >>,
          alternatives |->
            << <<"D","u","m","b","b","e","l","l"," ","B","e","n","c","h"," ","P","r","e","s","s">>,
               <<"P","u","s","h","-","u","p","s">>,
               <<"M","a","c","h","i","n","e"," ","C","h","e","s","t"," ","P","r","e","s","s">>,
               <<"F","l","o","o","r"," ","P","r","e","s","s">> >> ] ] ,
    [ key |-> <<"i","n","c","l","i","n","e","_","d","u","m","b","b","e","l","l","_","p","r","e","s","s">>,
      record |->
        [ name |-> "Incline Dumbbell Press",
          primary_muscles |-> <<"upper_chest", "front_delts", "triceps">>,
          type |-> "compound",
          equipment |-> <<"dumbbells", "incline_bench">>,
          instructions |->
            << "Set bench to 30-45 degree incline",
               "Sit with dumbbells on thighs",
               "Kick dumbbells up as you lie back",
               "Press dumbbells up and together",
               "Lower with control to chest level",
               "Repeat for desired reps" >>,
          form_cues |->
            << "Keep back flat against bench",
               "Don't let dumbbells drift too far apart",
               "Control the negative portion",
               "Full range of motion" >>,
          alternatives |->
            << <<"I","n","c","l","i","n","e"," ","B","a","r","b","e","l","l"," ","P","r","e","s","s">>,
               <<"L","o","w","-","t","o","-","H","i","g","h"," ","C","a","b","l","e"," ","F","l","y">>,
               <<"I","n","c","l","i","n","e"," ","P","u","s","h","-","u","p","s">> >> ] ] ,
    [ key |-> <<"p","u","s","h","_","u","p","s">>,
      record |->
        [ name |-> "Push-ups",
          primary_muscles |-> <<"chest", "triceps", "front_delts">>,
          type |-> "compound",
          equipment |-> <<"bodyweight">>,
          instructions |->
            << "Start in plank position, hands shoulder-width apart",
               "Keep body in straight line from head to heels",
               "Lower chest toward floor",
               "Push back up to starting position",
               "Maintain core engagement throughout" >>,
          form_cues |->
            << "Don't let hips sag or pike up",
               "Elbows at 45 degree angle",
               "Full lockout at top",
               "Chest touches floor at bottom" >>,
          alternatives |->
            << <<"K","n","e","e"," ","P","u","s","h","-","u","p","s">>,
               <<"I","n","c","l","i","n","e"," ","P","u","s","h","-","u","p","s">>,
               <<"D","i","a","m","o","n","d"," ","P","u","s","h","-","u","p","s">>,
               <<"W","i","d","e"," ","P","u","s","h","-","u","p","s">> >> ] ] ,
    [ key |-> <<"b","a","r","b","e","l","l","_","r","o","w">>,
      record |->
        [ name |-> "Barbell Row",
          primary_muscles |-> <<"lats", "rhomboids", "rear_delts", "biceps">>,
          type |-> "compound",
          equipment |-> <<"barbell">>,
          instructions |->
            << "Stand with feet shoulder-width apart",
               "Hinge at hips, back flat, chest up",
               "Grip bar slightly wider than shoulder width",
               "Pull bar to lower chest/upper abs",
               "Squeeze shoulder blades at top",
               "Lower with control" >>,
          form_cues |->
            << "Keep back flat, don't round",
               "Lead with elbows",
               "Don't use momentum",
               "Torso angle ~45 degrees" >>,
          alternatives |->
            << <<"D","u","m","b","b","e","l","l"," ","R","o","w">>,
               <<"C","a","b","l","e"," ","R","o","w">>,
               <<"T","-","B","a","r"," ","R","o","w">>,
               <<"C","h","e","s","t"," ","S","u","p","p","o","r","t","e","d"," ","R","o","w">> >> ] ] ,
    [ key |-> <<"p","u","l","l","_","u","p","s">>,
      record |->
        [ name |-> "Pull-ups",
          primary_muscles |-> <<"lats", "biceps", "rear_delts">>,
          type |-> "compound",
          equipment |-> <<"pull_up_bar">>,
          instructions |->
            << "Grip bar slightly wider than shoulder width",
               "Hang with arms fully extended",
               "Pull yourself up until chin clears bar",
               "Lower with control to full extension",
               "Avoid swinging or kipping" >>,
          form_cues |->
            << "Initiate with lats, not arms",
               "Keep core engaged",
               "Shoulders down and back",
               "Full range of motion" >>,
          alternatives |->
            << <<"L","a","t"," ","P","u","l","l","d","o","w","n">>,
               <<"A","s","s","i","s","t","e","d"," ","P","u","l","l","-","u","p","s">>,
               <<"N","e","g","a","t","i","v","e"," ","P","u","l","l","-","u","p","s">>,
               <<"I","n","v","e","r","t","e","d"," ","R","o","w","s">> >> ] ] ,
    [ key |-> <<"l","a","t","_","p","u","l","l","d","o","w","n">>,
      record |->
        [ name |-> "Lat Pulldown",
          primary_muscles |-> <<"lats", "biceps", "rear_delts">>,
          type |-> "compound",
          equipment |-> <<"cable_machine">>,
          instructions |->
            << "Sit with thighs secured under pads",
               "Grip bar wider than shoulder width",
               "Pull bar down to upper chest",
               "Squeeze lats at bottom",
               "Control the weight back up" >>,
          form_cues |->
            << "Don't lean back excessively",
               "Pull elbows down and back",
               "Keep chest up",
               "Full stretch at top" >>,
          alternatives |->
            << <<"P","u","l","l","-","u","p","s">>,
               <<"C","l","o","s","e"," ","G","r","i","p"," ","P","u","l","l","d","o","w","n">>,
               <<"S","t","r","a","i","g","h","t"," ","A","r","m"," ","P","u","l","l","d","o","w","n">> >> ] ] ,
    [ key |-> <<"s","q","u","a","t">>,
      record |->
        [ name |-> "Squat",
          primary_muscles |-> <<"quads", "glutes", "hamstrings", "core">>,
          type |-> "compound",
          equipment |-> <<"barbell", "squat_rack">>,
          instructions |->
            << "Position bar on upper back (high bar) or rear delts (low bar)",
               "Unrack and step back, feet shoulder-width apart",
               "Brace core and initiate by pushing hips back",
               "Descend until hip crease below knee",
               "Drive through feet to stand",
               "Lock out hips and knees at top" >>,
          form_cues |->
            << "Keep chest up and back flat",
               "Knees track over toes",
               "Weight in mid-foot/heels",
               "Don't let knees cave in",
               "Breathe and brace each rep" >>,
          alternatives |->
            << <<"G","o","b","l","e","t"," ","S","q","u","a","t">>,
               <<"F","r","o","n","t"," ","S","q","u","a","t">>,
               <<"L","e","g"," ","P","r","e","s","s">>,
               <<"B","u","l","g","a","r","i","a","n"," ","S","p","l","i","t"," ","S","q","u","a","t">>,
               <<"B","o","x"," ","S","q","u","a","t">> >> ] ] ,
    [ key |-> <<"d","e","a","d","l","i","f","t">>,
      record |->
        [ name |-> "Deadlift",
          primary_muscles |-> <<"hamstrings", "glutes", "lower_back", "traps">>,
          type |-> "compound",
          equipment |-> <<"barbell">>,
          instructions |->
            << "Stand with feet hip-width, bar over mid-foot",
               "Hinge and grip bar just outside legs",
               "Drop hips, chest up, back flat",
               "Drive through floor, keeping bar close",
               "Lock out hips and knees together",
               "Reverse the movement to lower" >>,
          form_cues |->
            << "Bar stays close to body entire lift",
               "Don't round lower back",
               "Push floor away with legs",
               "Lock out by squeezing glutes",
               "Don't hyperextend at top" >>,
          alternatives |->
            << <<"R","o","m","a","n","i","a","n"," ","D","e","a","d","l","i","f","t">>,
               <<"T","r","a","p"," ","B","a","r"," ","D","e","a","d","l","i","f","t">>,
               <<"S","u","m","o"," ","D","e","a","d","l","i","f","t">>,
               <<"H","i","p"," ","T","h","r","u","s","t">> >> ] ] ,
    [ key |-> <<"r","o","m","a","n","i","a","n","_","d","e","a","d","l","i","f","t">>,
      record |->
        [ name |-> "Romanian Deadlift",
          primary_muscles |-> <<"hamstrings", "glutes", "lower_back">>,
          type |-> "compound",
          equipment |-> <<"barbell", "dumbbells">>,
          instructions |->
            << "Stand with feet hip-width, holding bar",
               "Push hips back while keeping knees slightly bent",
               "Lower bar along thighs until hamstring stretch",
               "Keep back flat throughout",
               "Drive hips forward to return to start" >>,
          form_cues |->
            << "Hinge at hips, not waist",
               "Bar stays close to legs",
               "Feel stretch in hamstrings",
               "Don't round back",
               "Squeeze glutes at top" >>,
          alternatives |->
            << <<"S","t","i","f","f"," ","L","e","g"," ","D","e","a","d","l","i","f","t">>,
               <<"S","i","n","g","l","e"," ","L","e","g"," ","R","D","L">>,
               <<"G","o","o","d"," ","M","o","r","n","i","n","g">>,
               <<"C","a","b","l","e"," ","P","u","l","l"," ","T","h","r","o","u","g","h">> >> ] ] ,
    [ key |-> <<"l","e","g","_","p","r","e","s","s">>,
      record |->
        [ name |-> "Leg Press",
          primary_muscles |-> <<"quads", "glutes", "hamstrings">>,
          type |-> "compound",
          equipment |-> <<"leg_press_machine">>,
          instructions |->
            << "Sit in machine with back flat against pad",
               "Place feet shoulder-width on platform",
               "Release safety and lower weight",
               "Lower until knees at 90 degrees",
               "Press through feet to extend legs",
               "Don't lock knees completely" >>,
          form_cues |->
            << "Keep lower back pressed into pad",
               "Don't let knees cave in",
               "Control the negative",
               "Full range of motion" >>,
          alternatives |->
            << <<"S","q","u","a","t">>,
               <<"H","a","c","k"," ","S","q","u","a","t">>,
               <<"B","u","l","g","a","r","i","a","n"," ","S","p","l","i","t"," ","S","q","u","a","t">> >> ] ] ,
    [ key |-> <<"o","v","e","r","h","e","a","d","_","p","r","e","s","s">>,
      record |->
        [ name |-> "Overhead Press",
          primary_muscles |-> <<"front_delts", "side_delts", "triceps">>,
          type |-> "compound",
          equipment |-> <<"barbell">>,
          instructions |->
            << "Grip bar just outside shoulder width",
               "Start with bar at shoulder level",
               "Brace core and press bar overhead",
               "Lock out arms at top",
               "Lower bar with control to shoulders" >>,
          form_cues |->
            << "Keep core tight, don't lean back",
               "Press bar in straight line",
               "Move head back slightly as bar passes",
               "Full lockout at top" >>,
          alternatives |->
            << <<"D","u","m","b","b","e","l","l"," ","S","h","o","u","l","d","e","r"," ","P","r","e","s","s">>,
               <<"A","r","n","o","l","d"," ","P","r","e","s","s">>,
               <<"M","a","c","h","i","n","e"," ","S","h","o","u","l","d","e","r"," ","P","r","e","s","s">>,
               <<"L","a","n","d","m","i","n","e"," ","P","r","e","s","s">> >> ] ] ,
    [ key |-> <<"l","a","t","e","r","a","l","_","r","a","i","s","e">>,
      record |->
        [ name |-> "Lateral Raise",
          primary_muscles |-> <<"side_delts">>,
          type |-> "isolation",
          equipment |-> <<"dumbbells">>,
          instructions |->
            << "Stand with dumbbells at sides",
               "Slight bend in elbows",
               "Raise arms out to sides until shoulder height",
               "Pause briefly at top",
               "Lower with control" >>,
          form_cues |->
            << "Lead with elbows, not hands",
               "Don't swing or use momentum",
               "Slight forward lean okay",
               "Pinkies up at top optional" >>,
          alternatives |->
            << <<"C","a","b","l","e"," ","L","a","t","e","r","a","l"," ","R","a","i","s","e">>,
               <<"M","a","c","h","i","n","e"," ","L","a","t","e","r","a","l"," ","R","a","i","s","e">>,
               <<"L","e","a","n","i","n","g"," ","L","a","t","e","r","a","l"," ","R","a","i","s","e">> >> ] ] ,
    [ key |-> <<"b","i","c","e","p","_","c","u","r","l">>,
      record |->
        [ name |-> "Bicep Curl",
          primary_muscles |-> <<"biceps">>,
          type |-> "isolation",
          equipment |-> <<"dumbbells", "barbell">>,
          instructions |->
            << "Stand with arms at sides, palms forward",
               "Keep elbows at sides throughout",
               "Curl weight up toward shoulders",
               "Squeeze biceps at top",
               "Lower with control" >>,
          form_cues |->
            << "Don't swing body",
               "Keep elbows stationary",
               "Full range of motion",
               "Control the negative" >>,
          alternatives |->
            << <<"H","a","m","m","e","r"," ","C","u","r","l">>,
               <<"P","r","e","a","c","h","e","r"," ","C","u","r","l">>,
               <<"C","a","b","l","e"," ","C","u","r","l">>,
               <<"I","n","c","l","i","n","e"," ","C","u","r","l">> >> ] ] ,
    [ key |-> <<"t","r","i","c","e","p","_","p","u","s","h","d","o","w","n">>,
      record |->
        [ name |-> "Tricep Pushdown",
          primary_muscles |-> <<"triceps">>,
          type |-> "isolation",
          equipment |-> <<"cable_machine">>,
          instructions |->
            << "Stand facing cable machine",
               "Grip rope or bar attachment",
               "Keep elbows at sides",
               "Push down until arms fully extended",
               "Squeeze triceps at bottom",
               "Control the return" >>,
          form_cues |->
            << "Don't let elbows flare",
               "Keep torso upright",
               "Full extension at bottom",
               "Don't use momentum" >>,
          alternatives |->
            << <<"S","k","u","l","l"," ","C","r","u","s","h","e","r","s">>,
               <<"O","v","e","r","h","e","a","d"," ","E","x","t","e","n","s","i","o","n">>,
               <<"D","i","p","s">>,
               <<"C","l","o","s","e"," ","G","r","i","p"," ","B","e","n","c","h">> >> ] ] ,
    [ key |-> <<"p","l","a","n","k">>,
      record |->
        [ name |-> "Plank",
          primary_muscles |-> <<"core", "shoulders">>,
          type |-> "core",
          equipment |-> <<"bodyweight">>,
          instructions |->
            << "Start in push-up position on forearms",
               "Keep body in straight line",
               "Engage core and glutes",
               "Hold position for prescribed time",
               "Breathe normally throughout" >>,
          form_cues |->
            << "Don't let hips sag or pike",
               "Keep neck neutral",
               "Squeeze everything tight",
               "Quality over duration" >>,
          alternatives |->
            << <<"S","i","d","e"," ","P","l","a","n","k">>,
               <<"D","e","a","d"," ","B","u","g">>,
               <<"B","i","r","d"," ","D","o","g">>,
               <<"H","o","l","l","o","w"," ","H","o","l","d">> >> ] ] ,
    [ key |-> <<"f","a","c","e","_","p","u","l","l","s">>,
      record |->
        [ name |-> "Face Pulls",
          primary_muscles |-> <<"rear_delts", "rhomboids", "external_rotators">>,
          type |-> "isolation",
          equipment |-> <<"cable_machine", "rope">>,
          instructions |->
            << "Set cable at face height",
               "Grip rope with thumbs pointing back",
               "Pull toward face, separating hands",
               "Externally rotate at end of movement",
               "Squeeze shoulder blades together",
               "Control return" >>,
          form_cues |->
            << "Lead with elbows high",
               "Pull apart, not just back",
               "Keep chest up",
               "Don't lean back excessively" >>,
          alternatives |->
            << <<"R","e","v","e","r","s","e"," ","F","l","y">>,
               <<"B","a","n","d"," ","P","u","l","l"," ","A","p","a","r","t","s">>,
               <<"R","e","a","r"," ","D","e","l","t"," ","F","l","y"," ","M","a","c","h","i","n","e">> >> ] ] ,
    [ key |-> <<"c","a","l","f","_","r","a","i","s","e","s">>,
      record |->
        [ name |-> "Calf Raises",
          primary_muscles |-> <<"calves">>,
          type |-> "isolation",
          equipment |-> <<"calf_machine", "dumbbells">>,
          instructions |->
            << "Position balls of feet on edge",
               "Lower heels for full stretch",
               "Push up onto toes as high as possible",
               "Pause and squeeze at top",
               "Lower with control" >>,
          form_cues |->
            << "Full range of motion",
               "Don't bounce at bottom",
               "Pause at top",
               "Straight knees for gastrocnemius" >>,
          alternatives |->
            << <<"S","e","a","t","e","d"," ","C","a","l","f"," ","R","a","i","s","e">>,
               <<"D","o","n","k","e","y"," ","C","a","l","f"," ","R","a","i","s","e">>,
               <<"S","i","n","g","l","e"," ","L","e","g"," ","C","a","l","f"," ","R","a","i","s","e">> >> ] ] ,
    [ key |-> <<"l","e","g","_","c","u","r","l">>,
      record |->
        [ name |-> "Leg Curl",
          primary_muscles |-> <<"hamstrings">>,
          type |-> "isolation",
          equipment |-> <<"leg_curl_machine">>,
          instructions |->
            << "Lie face down or sit in machine",
               "Position pad above heels",
               "Curl legs toward glutes",
               "Squeeze hamstrings at top",
               "Lower with control" >>,
          form_cues |->
            << "Don't lift hips off pad",
               "Full range of motion",
               "Control the negative",
               "Point toes for extra contraction" >>,
          alternatives |->
            << <<"N","o","r","d","i","c"," ","C","u","r","l">>,
               <<"S","w","i","s","s"," ","B","a","l","l"," ","C","u","r","l">>,
               <<"S","l","i","d","e","r"," ","C","u","r","l">>,
               <<"R","o","m","a","n","i","a","n"," ","D","e","a","d","l","i","f","t">> >> ] ]
 >>

\* get_exercise: name.lower().replace(' ', '_').replace('-', '_')
Normalize(name) ==
    ReplaceChar(ReplaceChar(LowerStr(name), " ", "_"), "-", "_")

\* get_exercise: the condition of the fuzzy loop
FuzzyMatch(normalized, key) ==
    Contains(normalized, key) \/ Contains(key, normalized)

\* get_exercise: the error dict; the message is f'Exercise "{name}" not
\* found in library', kept as its three parts
NotFound(name) ==
    [error |-> <<"Exercise \"", name, "\" not found in library">>]

\* a get_exercise whose fuzzy loop keeps the last match instead of
\* returning at the first
FuzzyPick_Last(table, normalized) ==
    table[CHOOSE i \in DOMAIN table :
            /\ FuzzyMatch(normalized, table[i].key)
            /\ \A j \in DOMAIN table :
                  FuzzyMatch(normalized, table[j].key) => j <= i].record

\* get_exercise: the fuzzy loop returns at the first match in dict order
FuzzyPick(table, normalized) ==
    table[CHOOSE i \in DOMAIN table :
            /\ FuzzyMatch(normalized, table[i].key)
            /\ \A j \in DOMAIN table :
                  FuzzyMatch(normalized, table[j].key) => i <= j].record

\* get_exercise
GetExercise(table, name) ==
    LET normalized == Normalize(name)
    IN  IF \E i \in DOMAIN table : table[i].key = normalized
        THEN table[CHOOSE i \in DOMAIN table : table[i].key = normalized].record
        ELSE IF \E i \in DOMAIN table : FuzzyMatch(normalized, table[i].key)
        THEN FuzzyPick(table, normalized)
        ELSE NotFound(name)

\* get_alternatives: any(eq in alt.lower() for eq in ['dumbbell',
\* 'bodyweight', 'band'])
FitsEquipment(alt) ==
    \/ Contains(<<"d","u","m","b","b","e","l","l">>, LowerStr(alt))
    \/ Contains(<<"b","o","d","y","w","e","i","g","h","t">>, LowerStr(alt))
    \/ Contains(<<"b","a","n","d">>, LowerStr(alt))

\* a get_alternatives that falls back to the whole list when the filter
\* leaves nothing
EquipmentFilter_FallsBack(alternatives) ==
    IF SelectSeq(alternatives, FitsEquipment) = <<>>
    THEN alternatives
    ELSE SelectSeq(alternatives, FitsEquipment)

\* get_alternatives: the list comprehension of reason 'equipment'
EquipmentFilter(alternatives) == SelectSeq(alternatives, FitsEquipment)

\* get_alternatives
GetAlternatives(table, exercise_name, reason) ==
    LET exercise == GetExercise(table, exercise_name)
    IN  IF "error" \in DOMAIN exercise THEN <<>>
        ELSE LET alternatives == Get(exercise, "alternatives", <<>>)
             IN  IF reason = "equipment"
                 THEN EquipmentFilter(alternatives)
                 ELSE alternatives

\* library.get_exercise(name)
Exercise(name) ==
    /\ ret' = [op |-> "get_exercise",
               value |-> GetExercise(BuildExerciseDatabase, name)]
    /\ arg' = <<name>>
    /\ UNCHANGED <<workouts, workouts_file, now, splits, plans, agentVars>>

\* library.get_alternatives(exercise_name, reason)
Alternatives(exercise_name, reason) ==
    /\ ret' = [op |-> "get_alternatives",
               value |-> GetAlternatives(BuildExerciseDatabase,
                                         exercise_name, reason)]
    /\ arg' = <<exercise_name, reason>>
    /\ UNCHANGED <<workouts, workouts_file, now, splits, plans, agentVars>>

-----------------------------------------------------------------------------
(***************************************************************************)
(* SpecLibrary: one ExerciseLibrary; get_exercise or get_alternatives is   *)
(* called with a key of the table written in different ways, with a name   *)
(* that is part of a key or holds one, or with an unknown name.            *)
(***************************************************************************)

\* how often a separator is repeated in the padded ways of writing a key
MaxRepeat == 2

\* str.upper()
UpperStr(str) ==
    [i \in DOMAIN str |->
        IF \E j \in DOMAIN LowerLetters : LowerLetters[j] = str[i]
        THEN UpperLetters[CHOOSE j \in DOMAIN LowerLetters :
                            LowerLetters[j] = str[i]]
        ELSE str[i]]

\* sep, n times
Repeat(sep, n) == [i \in 1..n |-> sep]

\* key with every underscore replaced by n times sep
RECURSIVE Spaced(_, _, _)
Spaced(key, sep, n) ==
    IF key = <<>> THEN <<>>
    ELSE (IF Head(key) = "_" THEN Repeat(sep, n) ELSE <<Head(key)>>)
            \o Spaced(Tail(key), sep, n)

Separators == {" ", "-", "_"}

\* A key in another letter case or with other separators
PlainVariants(key) ==
    {Spaced(k, sep, 1) : k \in {key, UpperStr(key)}, sep \in Separators}

\* A key with extra spaces or hyphens: repeated between the words, leading
\* or trailing
PaddedVariants(key) ==
    {Spaced(key, sep, n) : sep \in {" ", "-"}, n \in 2..MaxRepeat}
        \cup {Repeat(sep, n) \o key : sep \in {" ", "-"}, n \in 1..(MaxRepeat - 1)}
        \cup {key \o Repeat(sep, n) : sep \in {" ", "-"}, n \in 1..(MaxRepeat - 1)}

Variants(key) == PlainVariants(key) \cup PaddedVariants(key)

LibraryKeys ==
    {BuildExerciseDatabase[i].key : i \in DOMAIN BuildExerciseDatabase}

OtherNames ==
    { <<"p","r","e","s","s">>,
      <<"c","u","r","l">>,
      <<"d","e","a","d">>,
      <<"Z","e","r","c","h","e","r"," ","S","q","u","a","t">>,
      <<"H","e","a","v","y"," ","R","o","m","a","n","i","a","n"," ","D","e","a","d","l","i","f","t">>,
      <<"b","u","r","p","e","e">>,
      <<"K","e","t","t","l","e","b","e","l","l"," ","S","w","i","n","g">>,
      <<>> }

LibraryNames == UNION {Variants(key) : key \in LibraryKeys} \cup OtherNames

LibraryReasons == {"general", "equipment", "injury", "preference"}

\* ExerciseLibrary.__init__; no generator and no tracker are in play.  The
\* arguments of the one call that is made are drawn here
InitLibrary ==
    /\ NoGenerator
    /\ workouts = <<>>
    /\ workouts_file = <<>>
    /\ now = StartInstant
    /\ ret = [op |-> "none"]
    /\ arg \in {<<name>> : name \in LibraryNames}
                \cup (LibraryNames \X LibraryReasons)
    /\ NoAgent

LibraryExercise ==
    /\ Len(arg) = 1
    /\ Exercise(arg[1])

LibraryAlternatives ==
    /\ Len(arg) = 2
    /\ Alternatives(arg[1], arg[2])

NextLibrary == LibraryExercise \/ LibraryAlternatives

SpecLibrary == InitLibrary /\ [][NextLibrary]_vars

\* The record the table holds under a key
RecordOf(key) ==
    BuildExerciseDatabase[CHOOSE i \in DOMAIN BuildExerciseDatabase :
                            BuildExerciseDatabase[i].key = key].record

\* C13: for every key of the exercise table and every variant of it that is
\* obtained by changing letter case, exchanging separators (space, hyphen,
\* underscore) or adding extra whitespace/hyphens (repeated between words,
\* leading or trailing), lookup returns the record of the canonical key.
C13_VariantsFindTheKey ==
    ret.op = "get_exercise" =>
        \A key \in LibraryKeys :
            arg[1] \in Variants(key) => ret.value = RecordOf(key)

\* C13 without the extra whitespace/hyphens: a change of letter case and an
\* exchange of separators find the record of the key
C13_HoldsForPlainVariants ==
    ret.op = "get_exercise" =>
        \A key \in LibraryKeys :
            arg[1] \in PlainVariants(key) => ret.value = RecordOf(key)

\* The positions of the table whose key equals n, and those whose key
\* contains n or is contained in n
KeyEquals(n) ==
    {i \in DOMAIN BuildExerciseDatabase : BuildExerciseDatabase[i].key = n}

KeyOverlaps(n) ==
    {i \in DOMAIN BuildExerciseDatabase :
        \/ Contains(n, BuildExerciseDatabase[i].key)
        \/ Contains(BuildExerciseDatabase[i].key, n)}

\* C14: lookup(name) returns the record whose key equals the normalized
\* name (lower case, every space and hyphen an underscore) if there is
\* one; otherwise the record of the first table entry, in table order,
\* whose key contains the normalized name or is contained in it; and it
\* returns the not-found marker exactly when no key equals, contains or is
\* contained in the normalized name.
C14_ExactThenFirstOverlap ==
    ret.op = "get_exercise" =>
        LET name == arg[1]
            n == [i \in DOMAIN name |->
                    IF LowerChar(name[i]) \in {" ", "-"} THEN "_"
                    ELSE LowerChar(name[i])]
            first == CHOOSE i \in KeyOverlaps(n) : \A j \in KeyOverlaps(n) : i <= j
        IN  /\ KeyEquals(n) # {} => ret.value = RecordOf(n)
            /\ (KeyEquals(n) = {} /\ KeyOverlaps(n) # {})
                  => ret.value = BuildExerciseDatabase[first].record
            /\ ("error" \in DOMAIN ret.value)
                  <=> (KeyEquals(n) = {} /\ KeyOverlaps(n) = {})
            /\ ("error" \in DOMAIN ret.value) => DOMAIN ret.value = {"error"}

\* C14 witness: 'press' equals no key and is part of the keys bench_press,
\* incline_dumbbell_press, leg_press and overhead_press; the record of the
\* first, Bench Press, is returned
C14_Witness ==
    /\ ret.op = "get_exercise"
    /\ arg = << <<"p","r","e","s","s">> >>
    /\ Cardinality(KeyOverlaps(arg[1])) = 4
    /\ KeyEquals(arg[1]) = {}
    /\ ret.value.name = "Bench Press"

\* a is b with some elements left out, the others in the same order
IsSubList(a, b) ==
    \E f \in [DOMAIN a -> DOMAIN b] :
        /\ \A i \in DOMAIN a : a[i] = b[f[i]]
        /\ \A i, j \in DOMAIN a : i < j => f[i] < f[j]

\* alt contains 'dumbbell', 'bodyweight' or 'band', letter case aside
NamesEquipment(alt) ==
    \E word \in { <<"d","u","m","b","b","e","l","l">>,
                  <<"b","o","d","y","w","e","i","g","h","t">>,
                  <<"b","a","n","d">> } :
        \E i \in 1..Len(alt) :
            /\ i + Len(word) - 1 <= Len(alt)
            /\ \A k \in 1..Len(word) : LowerChar(alt[i + k - 1]) = word[k]

\* C15: for every exercise name x, alternatives(x, 'equipment') is a
\* sub-list (same relative order) of alternatives(x, 'general'), every
\* element of it contains 'dumbbell', 'bodyweight' or 'band'
\* case-insensitively, and it is empty (not the unfiltered list) when no
\* alternative matches; for the reasons general, injury and preference the
\* record's alternatives are returned verbatim; for an unknown exercise the
\* result is the empty list.
C15_EquipmentAlternatives ==
    ret.op = "get_alternatives" =>
        LET found == GetExercise(BuildExerciseDatabase, arg[1])
            general == GetAlternatives(BuildExerciseDatabase, arg[1], "general")
        IN  /\ "error" \in DOMAIN found => ret.value = <<>>
            /\ ("error" \notin DOMAIN found /\ arg[2] # "equipment")
                  => ret.value = found.alternatives
            /\ arg[2] = "equipment" =>
                  /\ IsSubList(ret.value, general)
                  /\ \A i \in DOMAIN ret.value : NamesEquipment(ret.value[i])
                  /\ (\A i \in DOMAIN general : ~NamesEquipment(general[i]))
                        => ret.value = <<>>

\* C15 witness: the equipment alternatives of 'FACE-PULLS' are the one of
\* its three alternatives that names a band, 'Band Pull Aparts'
C15_Witness ==
    /\ ret.op = "get_alternatives"
    /\ arg = << <<"F","A","C","E","-","P","U","L","L","S">>, "equipment" >>
    /\ Len(GetAlternatives(BuildExerciseDatabase, arg[1], "general")) = 3
    /\ ret.value = << <<"B","a","n","d"," ","P","u","l","l"," ","A","p","a","r","t","s">> >>

-----------------------------------------------------------------------------
(***************************************************************************)
(* SpecPlans: one generator object, generate_plan called up to MaxCalls    *)
(* times with arguments of three kinds: beginners and others on every      *)
(* split, names of splits and goals that the tables do not know, and       *)
(* numbers of weeks from -1 to 8.                                          *)
(***************************************************************************)

ExperiencePlanArgs ==
    {PlanArgs(s, e, "strength", q, 1, l) :
        s \in {"full_body", "upper_lower", "ppl", "upper_lower_ppl"},
        e \in {"beginner", "advanced"},
        q \in {"full_gym", "bodyweight"},
        l \in {<<>>, <<"lower_back">>}}

\* "bro_split" and "" are no keys of splits; "toning" and "" none of
\* rep_schemes
UnknownPlanArgs ==
    {PlanArgs(s, "intermediate", g, "home_gym", 2, <<>>) :
        s \in {"bro_split", "", "ppl"},
        g \in {"toning", "", "endurance"}}

WeeksPlanArgs ==
    {PlanArgs("full_body", "intermediate", "fat_loss", "full_gym", w, <<>>) :
        w \in {-1, 0, 1, 2, 4, 5, 8}}

PlansArgs == ExperiencePlanArgs \cup UnknownPlanArgs \cup WeeksPlanArgs

PlansGenerate ==
    /\ Len(plans) < MaxCalls
    /\ \E a \in PlansArgs : GeneratePlan(a)

NextPlans == PlansGenerate

SpecPlans == InitGen /\ [][NextPlans]_vars

\* The template sessions as written in the source, for a split name
WrittenSessions(split_type) ==
    IF split_type \in DOMAIN NewSplits
    THEN NewSplits[split_type].sessions
    ELSE NewSplits["full_body"].sessions

\* The type and muscle of a slot: what no step of generate_plan changes
SlotKind(slot) == <<slot.type, slot.muscle>>

\* C16: for experience 'beginner', every session of every week of the
\* returned plan has at most 5 exercises, and they are the first 5 slots of
\* the template session in template order (positional truncation); for every
\* split, goal, equipment, limitation list, after any earlier calls.
C16_BeginnerFirstFive ==
    \A c \in 1..Len(plans) :
        plans[c].args.experience_level = "beginner" =>
            LET plan == Returned(plans[c])
                written == WrittenSessions(plans[c].args.split_type)
            IN  \A w \in DOMAIN plan.weeks :
                    /\ Len(plan.weeks[w].sessions) = Len(written)
                    /\ \A i \in DOMAIN written :
                        LET got == plan.weeks[w].sessions[i].exercises
                            slots == written[i].exercises
                        IN  /\ Len(got) <= 5
                            /\ Len(got) = (IF Len(slots) < 5 THEN Len(slots) ELSE 5)
                            /\ \A j \in DOMAIN got :
                                  SlotKind(got[j]) = SlotKind(slots[j])

\* C16 witness: a beginner's ppl plan, generated after an advanced one; its
\* Push session has 5 of the template's 7 slots
C16_Witness ==
    /\ Len(plans) = 2
    /\ plans[1].args.experience_level = "advanced"
    /\ plans[2].args.experience_level = "beginner"
    /\ plans[2].args.split_type = "ppl"
    /\ Len(NewSplits["ppl"].sessions[1].exercises) = 7
    /\ Len(Returned(plans[2]).weeks[1].sessions[1].exercises) = 5

\* C19: generate never fails on unrecognized enum-like inputs: with a split
\* name that is no known template it returns the plan built from the
\* full_body template, with a goal that is not in the scheme table it
\* applies the muscle_building scheme (3 sets, '8-12', '60-90 sec'); no
\* error result is produced in either case.  Stated for each call: the
\* weeks returned are those the same call returns, on the same generator,
\* with 'full_body' or 'muscle_building' in place of the unknown name.
C19_UnknownNamesFallBack ==
    [][ LET c == plans'[Len(plans')]
            a == c.args
            knownSplit ==
                a.split_type \in {"full_body", "upper_lower", "ppl", "upper_lower_ppl"}
            knownGoal ==
                a.goal \in {"strength", "muscle_building", "fat_loss", "endurance"}
            asKnown == [a EXCEPT
                          !.split_type = IF knownSplit THEN @ ELSE "full_body",
                          !.goal = IF knownGoal THEN @ ELSE "muscle_building"]
            got == Returned(c)
        IN  Len(plans') = Len(plans) + 1 =>
              /\ "error" \notin DOMAIN got
              /\ DOMAIN got = {"split_type", "goal", "experience_level", "weeks"}
              /\ got.weeks = GeneratedPlan(splits, asKnown).weeks
              /\ ~knownSplit =>
                    \A w \in DOMAIN got.weeks :
                        /\ Len(got.weeks[w].sessions) = 2
                        /\ got.weeks[w].sessions[1].name = "Full Body A"
                        /\ got.weeks[w].sessions[2].name = "Full Body B"
              /\ ~knownGoal =>
                    \A w \in DOMAIN got.weeks :
                      \A i \in DOMAIN got.weeks[w].sessions :
                        \A j \in DOMAIN got.weeks[w].sessions[i].exercises :
                          LET slot == got.weeks[w].sessions[i].exercises[j]
                          IN  /\ slot.sets = 3
                              /\ slot.type = "compound" =>
                                    /\ slot.reps = "8-12"
                                    /\ slot.rest = "60-90 sec"
      ]_vars

\* C19 witness: a plan for the split 'bro_split' and the goal 'toning',
\* generated after a ppl plan: Full Body A and B, squat slot with 3 sets of
\* 8-12
C19_Witness ==
    /\ Len(plans) = 2
    /\ plans[1].args.split_type = "ppl"
    /\ plans[2].args.split_type = "bro_split"
    /\ plans[2].args.goal = "toning"
    /\ Len(Returned(plans[2]).weeks) = 2
    /\ Returned(plans[2]).weeks[2].sessions[1].name = "Full Body A"
    /\ Returned(plans[2]).weeks[2].sessions[1].exercises[1].reps = "8-12"

\* C20: generate returns exactly `weeks` week entries numbered 1..weeks in
\* increasing order (none for weeks <= 0), all with identical session
\* lists, and the note of week n is chosen by first match: n = 1 the
\* form-focus note; otherwise n = weeks the final-week note; otherwise n
\* divisible by 4 the deload note; otherwise the progressive-overload note.
C20_WeeksAndNotes ==
    \A c \in 1..Len(plans) :
        LET total == plans[c].args.weeks
            got == Returned(plans[c]).weeks
        IN  /\ Len(got) = (IF total <= 0 THEN 0 ELSE total)
            /\ \A n \in DOMAIN got :
                /\ got[n].week_number = n
                /\ got[n].sessions = got[1].sessions
                /\ plans[c].plan.weeks[n].sessions = plans[c].plan.weeks[1].sessions
                /\ got[n].notes =
                      (CASE n = 1 ->
                              "Focus on form. Use moderate weights to learn movements."
                         [] n # 1 /\ n = total ->
                              "Final week! Push hard but consider a deload after this."
                         [] n # 1 /\ n # total /\ n % 4 = 0 ->
                              "Deload week if needed. Reduce volume by 40%."
                         [] OTHER ->
                              "Progressive overload. Try to beat last week's numbers.")

\* C20 witness: a plan of 8 weeks: week 4 has the deload note, week 8,
\* divisible by 4 and final, the final-week note
C20_Witness ==
    /\ Len(plans) >= 1
    /\ plans[Len(plans)].args.weeks = 8
    /\ Len(Returned(plans[Len(plans)]).weeks) = 8
    /\ Returned(plans[Len(plans)]).weeks[4].notes =
          "Deload week if needed. Reduce volume by 40%."
    /\ Returned(plans[Len(plans)]).weeks[8].notes =
          "Final week! Push hard but consider a deload after this."


\* The scheme of a goal as the generator's table has it, muscle_building's
\* for a goal that is no key
GoalScheme(goal) ==
    IF goal \in DOMAIN rep_schemes
    THEN rep_schemes[goal]
    ELSE rep_schemes.muscle_building

\* The slots of a plan: <<week, session, position>>
SlotsOf(plan) ==
    UNION { UNION { { <<w, i, j>> :
                        j \in DOMAIN plan.weeks[w].sessions[i].exercises } :
                    i \in DOMAIN plan.weeks[w].sessions } :
            w \in DOMAIN plan.weeks }

\* The slot of a plan at <<week, session, position>>
SlotAt(plan, p) == plan.weeks[p[1]].sessions[p[2]].exercises[p[3]]

-----------------------------------------------------------------------------
(***************************************************************************)
(* SpecSteps: one generator, generate_plan called up to MaxCalls times     *)
(* with arguments that vary the equipment and the list of limitations.     *)
(***************************************************************************)

\* "dumbbells" is no key of substitutions
StepsEquipmentArgs ==
    {PlanArgs(s, "intermediate", "strength", q, 1, <<>>) :
        s \in {"full_body", "upper_lower", "ppl"},
        q \in {"full_gym", "home_gym", "bodyweight", "dumbbells"}}

\* "wrist" is no key of limitation_subs
StepsLimitationArgs ==
    {PlanArgs(s, "intermediate", "strength", q, 1, l) :
        s \in {"full_body", "upper_lower"},
        q \in {"full_gym", "bodyweight"},
        l \in {<<"lower_back", "knee">>, <<"knee", "lower_back">>,
               <<"wrist">>, <<"wrist", "shoulder">>}}

StepsArgs ==
    StepsEquipmentArgs \cup StepsLimitationArgs
    \cup {PlanArgs("upper_lower", "beginner", "strength", "home_gym", 1,
                   <<"lower_back">>)}

StepsGenerate ==
    /\ Len(plans) < MaxCalls
    /\ \E a \in StepsArgs : GeneratePlan(a)

NextSteps == StepsGenerate

SpecSteps == InitGen /\ [][NextSteps]_vars

\* The name a slot named name has after the substitution of one table: the
\* table's value for a key, the name itself otherwise
Renamed(table, name) == IF name \in DOMAIN table THEN table[name] ELSE name

\* The name after the equipment step, as the claim has it
EquipmentName(equipment, name) ==
    IF equipment \in {"bodyweight", "home_gym"}
    THEN Renamed(substitutions[equipment], name)
    ELSE name

\* The name after the limitation step, as the claim has it: one tag after the
\* other in list order on the current name, tags without a table skipped
RECURSIVE LimitationName(_, _)
LimitationName(limitations, name) ==
    IF limitations = <<>>
    THEN name
    ELSE LimitationName(Tail(limitations),
            IF Head(limitations) \in {"lower_back", "knee", "shoulder"}
            THEN Renamed(limitation_subs[Head(limitations)], name)
            ELSE name)

\* No tag of the list has a table
NoTable(limitations) ==
    \A k \in DOMAIN limitations : limitations[k] \notin DOMAIN limitation_subs

\* The sessions of the template object the call about to return works on,
\* as they are when the call begins
SessionsBefore == splits[TemplateKey(splits, plans'[Len(plans')].args.split_type)].sessions

\* A generate_plan call returns in this step
Returns == Len(plans') = Len(plans) + 1

\* C22: equipment step of generate: for equipment bodyweight or home_gym,
\* every slot, in every session, whose name exactly equals a key of that
\* equipment's substitution table is renamed to the table's value, each slot
\* at most once, and no other slot is renamed; for full_gym and any other
\* equipment value the equipment step renames no slot, so the plan carries
\* the template's exercise names (up to limitation substitutions).
C22_EquipmentStep ==
    [][ (Returns /\ NoTable(plans'[Len(plans')].args.limitations)) =>
          LET c == plans'[Len(plans')]
          IN  /\ Len(c.sessions) = Len(SessionsBefore)
              /\ \A i \in DOMAIN c.sessions :
                   \A j \in DOMAIN c.sessions[i].exercises :
                        LET was == SessionsBefore[i].exercises[j].name
                            is == c.sessions[i].exercises[j].name
                        IN  /\ is = EquipmentName(c.args.equipment, was)
                            /\ c.args.equipment \notin {"bodyweight", "home_gym"}
                                  => is = was
      ]_vars

\* C22 witness: a home_gym plan on the new upper_lower template: Leg Press
\* has become Goblet Squat, Squat is still Squat; and a plan for an
\* equipment without a table returned after it, names as the template had them
C22_Witness ==
    /\ Len(plans) = 2
    /\ plans[1].args.split_type = "upper_lower"
    /\ plans[1].args.equipment = "home_gym"
    /\ plans[1].args.limitations = <<>>
    /\ plans[1].sessions[2].exercises[3].name = "Goblet Squat"
    /\ plans[1].sessions[2].exercises[1].name = "Squat"
    /\ plans[2].args.split_type = "full_body"
    /\ plans[2].args.equipment = "dumbbells"
    /\ plans[2].args.limitations = <<>>
    /\ [j \in 1..5 |-> plans[2].sessions[1].exercises[j].name]
         = <<"Squat", "Bench Press", "Barbell Row", "Overhead Press", "Plank">>

\* C23: limitation step of generate: substitutions are applied after the
\* equipment step, one limitation tag at a time in the order of the input
\* list, each matching on the slot's current name; a name produced by an
\* earlier step is replaced when it is a key of a later limitation's table,
\* a slot already renamed no longer matches a table keyed on its original
\* name (with limitations [lower_back, knee] a Squat slot ends as Leg Press,
\* with [knee, lower_back] it ends as Box Squat), and tags without a table
\* are ignored.
C23_LimitationStep ==
    [][ Returns =>
          LET c == plans'[Len(plans')]
          IN  \A i \in DOMAIN c.sessions :
                \A j \in DOMAIN c.sessions[i].exercises :
                    LET was == SessionsBefore[i].exercises[j].name
                        is == c.sessions[i].exercises[j].name
                        equipped == EquipmentName(c.args.equipment, was)
                    IN  /\ is = LimitationName(c.args.limitations, equipped)
                        /\ (was = "Squat" /\ equipped = "Squat"
                            /\ c.args.limitations = <<"lower_back", "knee">>)
                              => is = "Leg Press"
                        /\ (was = "Squat" /\ equipped = "Squat"
                            /\ c.args.limitations = <<"knee", "lower_back">>)
                              => is = "Box Squat"
                        /\ (equipped # was /\ equipped \notin
                              DOMAIN limitation_subs.lower_back
                                \cup DOMAIN limitation_subs.knee
                                \cup DOMAIN limitation_subs.shoulder)
                              => is = equipped
                        /\ NoTable(c.args.limitations) => is = equipped
      ]_vars

\* C23 witness: on new templates, the full_body Squat of a [knee, lower_back]
\* plan is Box Squat, the upper_lower Squat of a [lower_back, knee] plan is
\* Leg Press and its Leg Extension is Terminal Knee Extension
C23_Witness ==
    /\ Len(plans) = 2
    /\ plans[1].args.split_type = "full_body"
    /\ plans[1].args.equipment = "full_gym"
    /\ plans[1].args.limitations = <<"knee", "lower_back">>
    /\ plans[1].sessions[1].exercises[1].name = "Box Squat"
    /\ plans[1].sessions[2].exercises[1].name = "Hip Thrust"
    /\ plans[2].args.split_type = "upper_lower"
    /\ plans[2].args.equipment = "full_gym"
    /\ plans[2].args.limitations = <<"lower_back", "knee">>
    /\ plans[2].sessions[2].exercises[1].name = "Leg Press"
    /\ plans[2].sessions[4].exercises[4].name = "Terminal Knee Extension"

\* C23, second witness: a bodyweight plan with [lower_back, knee] on the new
\* full_body template: the equipment step made Squat Bodyweight Squat, which
\* no limitation table has as a key
C23_RenamedNoLongerMatches ==
    /\ Len(plans) >= 1
    /\ plans[1].args.split_type = "full_body"
    /\ plans[1].args.equipment = "bodyweight"
    /\ plans[1].args.limitations = <<"lower_back", "knee">>
    /\ plans[1].sessions[1].exercises[1].name = "Bodyweight Squat"


-----------------------------------------------------------------------------
(***************************************************************************)
(* SpecPersist: a data directory with or without a workouts.json of an     *)
(* earlier session; log_workout is called up to PersistLog times, a query  *)
(* runs, the clock advances, and a new tracker is constructed on the       *)
(* directory at any point.                                                 *)
(***************************************************************************)

PersistLog == 3
PersistDays == 2

\* workouts.json as a session of a week before left it
EarlierFile ==
    << NewWorkout(SquatSession, "first session", StartInstant - Days(7)) >>

InitPersist ==
    /\ NoGenerator
    /\ NoAgent
    /\ workouts_file \in {<<>>, EarlierFile}
    /\ workouts = LoadWorkouts(workouts_file)
    /\ now = StartInstant
    /\ ret = [op |-> "__init__"]
    /\ arg = <<>>

PersistLogCall ==
    /\ Len(workouts) < PersistLog + Len(EarlierFile)
    /\ \E a \in TrackerLogArgs : LogWorkout(a[1], a[2])

PersistAdvance ==
    /\ now + Days(1) <= StartInstant + Days(PersistDays)
    /\ Tick(Days(1))

NextPersist ==
    \/ PersistLogCall
    \/ NewTracker
    \/ PersonalRecords
    \/ PersistAdvance

SpecPersist == InitPersist /\ [][NextPersist]_vars

\* C24: after every log call returns, the persisted workouts document equals
\* the full in-memory log (a full rewrite, every entry in order), so a
\* tracker constructed afterwards on the same data directory starts with
\* exactly the sequence of all entries logged so far.
C24_FileIsTheWholeLog ==
    [][ /\ PersistLogCall =>
            /\ workouts_file' = workouts'
            /\ \E a \in TrackerLogArgs :
                  workouts_file' =
                      Append(workouts_file, NewWorkout(a[1], a[2], now))
        /\ ~PersistLogCall => workouts_file' = workouts_file
        /\ NewTracker => workouts' = workouts_file
      ]_vars

\* C24 witness: a tracker constructed on a directory whose document holds
\* the entry of an earlier session and three entries logged since, in order
C24_Witness ==
    /\ ret.op = "__init__"
    /\ Len(workouts) = 4
    /\ workouts = workouts_file
    /\ workouts[1] = EarlierFile[1]
    /\ workouts[2].date < workouts[3].date
    /\ workouts[3].date < workouts[4].date
    /\ workouts[4].exercises = MixedSession


-----------------------------------------------------------------------------
(***************************************************************************)
(* Repeated calls and equipment, checked under SpecGen.                    *)
(***************************************************************************)

\* C26: calling generate twice in a row on the same generator with identical
\* arguments returns equal plans (same sessions, slot names, sets/reps/rest
\* and week notes), for every combination of split, experience, goal,
\* equipment and limitation list, including combinations where a limitation
\* substitution produces a name that is a key of the equipment table
\* (home_gym with lower_back).
C26_SameArgsSamePlan ==
    \A c \in 1..(Len(plans) - 1) :
        plans[c].args = plans[c + 1].args
            => Returned(plans[c]) = Returned(plans[c + 1])

\* C26, what does hold: the two plans are equal as returned unless the
\* equipment is home_gym and lower_back is listed; and the two returned
\* objects, looked at after the second call, have equal content in every
\* case, their weeks holding the same session list
C26_HoldsWithoutHomeGymLowerBack ==
    \A c \in 1..(Len(plans) - 1) :
        plans[c].args = plans[c + 1].args =>
            /\ Current(plans[c]) = Current(plans[c + 1])
            /\ ~(/\ plans[c].args.equipment = "home_gym"
                 /\ \E k \in DOMAIN plans[c].args.limitations :
                        plans[c].args.limitations[k] = "lower_back")
                  => Returned(plans[c]) = Returned(plans[c + 1])

\* The names of the slots of a plan
NamesOf(plan) == {SlotAt(plan, p).name : p \in SlotsOf(plan)}

\* C27: for equipment home_gym or bodyweight, no slot of the returned plan
\* is named by a key of that equipment's substitution table (an exercise the
\* table treats as unavailable for that equipment), whatever split,
\* experience and limitation list are given.
C27_NoUnavailableExercise ==
    \A c \in 1..Len(plans) :
        plans[c].args.equipment \in {"home_gym", "bodyweight"} =>
            NamesOf(Returned(plans[c]))
                \cap DOMAIN substitutions[plans[c].args.equipment] = {}

\* C27, what does hold: the same without a listed limitation, on a generator
\* on which no call before listed one
C27_HoldsWithoutLimitations ==
    \A c \in 1..Len(plans) :
        (/\ plans[c].args.equipment \in {"home_gym", "bodyweight"}
         /\ \A b \in 1..c : plans[b].args.limitations = <<>>) =>
            NamesOf(Returned(plans[c]))
                \cap DOMAIN substitutions[plans[c].args.equipment] = {}


-----------------------------------------------------------------------------
(***************************************************************************)
(* SpecGapPairs: _calculate_consistency applied to the one and then to the *)
(* other of two workout lists of two or three entries each.                *)
(***************************************************************************)

GapInstants ==
    { StartInstant, StartInstant + Days(6), StartInstant + Days(7),
      StartInstant + Days(15) }

GapLists ==
    UNION { [1..n -> {NewWorkout(<<>>, None, t) : t \in GapInstants}]
                : n \in 2..3 }

InitGapPairs ==
    /\ NoGenerator
    /\ NoAgent
    /\ workouts = <<>>
    /\ workouts_file = <<>>
    /\ now = StartInstant + Days(15)
    /\ ret = [op |-> "_calculate_consistency", values |-> <<>>]
    /\ arg \in GapLists \X GapLists

\* self._calculate_consistency(workouts) on the next list of the pair
ConsistencyOfNext ==
    /\ Len(ret.values) < Len(arg)
    /\ ret' = [ret EXCEPT !.values =
                  Append(@, CalculateConsistency(arg[Len(@) + 1]))]
    /\ UNCHANGED <<workouts, workouts_file, now, splits, plans, arg, agentVars>>

NextGapPairs == ConsistencyOfNext

SpecGapPairs == InitGapPairs /\ [][NextGapPairs]_vars

\* The average gap in days between consecutive workout dates of a list of
\* two or more workouts: the span of its dates over the number of gaps
AverageGap(ws) ==
    LET days == {DateOf(ws[i].date) : i \in DOMAIN ws}
        first == CHOOSE d \in days : \A e \in days : d <= e
        last == CHOOSE d \in days : \A e \in days : e <= d
    IN  Frac(last - first, Len(ws) - 1)

\* C28: the consistency score is monotonically non-increasing in the average
\* gap: for any two workout lists with at least 2 entries each, the list
\* with the larger average gap between consecutive workout dates never gets
\* a higher score than the list with the smaller average gap.
C28_ScoreFallsWithGap ==
    Len(ret.values) = 2 =>
        /\ Less(AverageGap(arg[1]), AverageGap(arg[2]))
              => Leq(ret.values[2], ret.values[1])
        /\ Less(AverageGap(arg[2]), AverageGap(arg[1]))
              => Leq(ret.values[1], ret.values[2])

\* C28, what does hold: the same for two lists of which neither has an
\* average gap above 7 and below 8 days
C28_HoldsOutsideSevenToEight ==
    (/\ Len(ret.values) = 2
     /\ \A k \in 1..2 : ~(/\ Less(Whole(7), AverageGap(arg[k]))
                          /\ Less(AverageGap(arg[k]), Whole(8)))) =>
        /\ Less(AverageGap(arg[1]), AverageGap(arg[2]))
              => Leq(ret.values[2], ret.values[1])
        /\ Less(AverageGap(arg[2]), AverageGap(arg[1]))
              => Leq(ret.values[1], ret.values[2])

-----------------------------------------------------------------------------
(***************************************************************************)
(* PersonalTrainerAgent: the profile, the assessment and plan generation.  *)
(* The agent's generator is the heap splits; plans records its calls.      *)
(***************************************************************************)

\* goal.replace('_', ' ') on the goals of the model
GoalWords(goal) ==
    CASE goal = "muscle_building" -> "muscle building"
      [] goal = "fat_loss" -> "fat loss"
      [] OTHER -> goal

\* assess_user: split_recommendations.get(days_per_week, 'full_body')
SplitRecommendation(days_per_week) ==
    CASE days_per_week = 2 -> "full_body"
      [] days_per_week = 3 -> "full_body"
      [] days_per_week = 4 -> "upper_lower"
      [] days_per_week = 5 -> "upper_lower_ppl"
      [] days_per_week = 6 -> "ppl"
      [] OTHER -> "full_body"

\* x or []  for a list or None
OrEmpty(x) == IF x = None THEN <<>> ELSE x

\* assess_user: the dict assigned to self.user_profile, recommended_split
\* included; both timestamps are read from the clock at instant t
AssessedProfile(goal, experience_level, equipment, days_per_week, session_duration, limitations, t) ==
    [goal |-> goal,
     experience_level |-> experience_level,
     equipment |-> equipment,
     days_per_week |-> days_per_week,
     session_duration |-> session_duration,
     limitations |-> OrEmpty(limitations),
     created_at |-> t,
     updated_at |-> t,
     recommended_split |-> SplitRecommendation(days_per_week)]

\* assess_user: the message, f"Assessment complete. Recommended: {split}
\* split, {days}x/week for {goal}.", kept as its parts
AssessMessage(recommended_split, days_per_week, goal) ==
    << "Assessment complete. Recommended: ", recommended_split, " split, ",
       days_per_week, "x/week for ", GoalWords(goal), "." >>

\* assess_user(goal, experience_level, equipment, days_per_week,
\* session_duration, limitations), _save_user_profile included
AssessUser(goal, experience_level, equipment, days_per_week, session_duration, limitations) ==
    LET profile == AssessedProfile(goal, experience_level, equipment,
                                   days_per_week, session_duration,
                                   limitations, now)
    IN  /\ user_profile' = profile
        /\ profile_file' = <<profile>>
        /\ ret' = [op |-> "assess_user",
                   profile |-> profile,
                   recommended_split |-> profile.recommended_split,
                   message |-> AssessMessage(profile.recommended_split,
                                             days_per_week, goal)]
        /\ arg' = <<goal, experience_level, equipment, days_per_week,
                    session_duration, limitations>>
        /\ UNCHANGED <<splits, plans, workouts, workouts_file, now, plan_file>>

\* generate_workout_plan: split_type or
\* self.user_profile.get('recommended_split', 'full_body')
SplitOf(profile, split_type) ==
    IF split_type # None /\ split_type # ""
    THEN split_type
    ELSE Get(profile, "recommended_split", "full_body")

\* a generate_workout_plan that does not hand its weeks to generate_plan
ArgsFromProfile_DefaultWeeks(profile, weeks, split_type) ==
    PlanArgs(SplitOf(profile, split_type), profile.experience_level,
             profile.goal, profile.equipment, DefaultWeeks,
             Get(profile, "limitations", <<>>))

\* generate_workout_plan: the keyword arguments of generate_plan
ArgsFromProfile(profile, weeks, split_type) ==
    PlanArgs(SplitOf(profile, split_type), profile.experience_level,
             profile.goal, profile.equipment, weeks,
             Get(profile, "limitations", <<>>))

\* a generate_workout_plan that stores the split it used in the profile
ProfileAfterGenerate_KeepsSplit(profile, split) ==
    [profile EXCEPT !.recommended_split = split]

\* generate_workout_plan: self.user_profile after the call (the method
\* reads the profile and assigns nothing to it)
ProfileAfterGenerate(profile, split) == profile


\* a generate_workout_plan that opens current_plan.json for writing before
\* it looks at the profile: the early return leaves an empty document
NoProfileReturn_FileOpened ==
    /\ ret' = [op |-> "generate_workout_plan",
               value |-> [error |-> "Please complete assessment first"]]
    /\ plan_file' = <<EmptyDict>>
    /\ UNCHANGED <<splits, plans, user_profile>>

\* generate_workout_plan, lines 121-122: the early return without a profile
NoProfileReturn ==
    /\ ret' = [op |-> "generate_workout_plan",
               value |-> [error |-> "Please complete assessment first"]]
    /\ UNCHANGED <<splits, plans, user_profile, plan_file>>

\* generate_workout_plan(weeks, split_type)
GenerateWorkoutPlan(weeks, split_type) ==
    /\ arg' = <<weeks, split_type>>
    /\ IF DOMAIN user_profile = {}
       THEN NoProfileReturn
       ELSE LET a == ArgsFromProfile(user_profile, weeks, split_type)
            IN  /\ splits' = HeapAfterGenerate(splits, a)
                /\ plans' = Append(plans,
                              [args     |-> a,
                               plan     |-> PlanObject(splits, a),
                               sessions |-> AdjustedTemplate(splits, a).sessions])
                /\ user_profile' = ProfileAfterGenerate(user_profile, a.split_type)
                /\ plan_file' = <<GeneratedPlan(splits, a)>>
                /\ ret' = [op |-> "generate_workout_plan",
                           value |-> GeneratedPlan(splits, a)]
    /\ UNCHANGED <<workouts, workouts_file, now, profile_file>>

-----------------------------------------------------------------------------
(***************************************************************************)
(* SpecAgent: one agent, constructed on a data directory with or without a *)
(* profile written by an earlier assessment; assess_user and               *)
(* generate_workout_plan are called in any order, generate_plan being      *)
(* reached up to MaxCalls times.                                           *)
(***************************************************************************)

\* session_duration: int = 60
DefaultDuration == 60

AgentGoals == {"muscle_building", "strength"}
AgentDays == 2..7

\* the assessments: <<goal, experience_level, days_per_week, limitations>>,
\* every goal with every number of days, and the four-day muscle_building
\* user at the other levels and with a limitation
AssessArgs ==
    ({ <<goal, "intermediate", days_per_week, None>> :
          goal \in AgentGoals, days_per_week \in AgentDays })
    \cup { <<"muscle_building", "beginner", 4, None>>,
           <<"muscle_building", "advanced", 4, <<"lower_back">> >> }

AgentWeeks == {2}
AgentSplits == {None, "", "ppl"}

\* profile.json as an assessment of a week before left it
EarlierProfile ==
    AssessedProfile("fat_loss", "beginner", "home_gym", 3, 45, None,
                    StartInstant - Days(7))

\* PersonalTrainerAgent.__init__ and _load_user_profile
InitAgent ==
    /\ splits = NewSplits
    /\ plans = <<>>
    /\ TrackerIdle
    /\ profile_file \in {<<>>, <<EarlierProfile>>}
    /\ user_profile = (IF profile_file = <<>> THEN EmptyDict ELSE profile_file[1])
    /\ plan_file = <<>>

AgentAssess ==
    \E a \in AssessArgs :
        AssessUser(a[1], a[2], "full_gym", a[3], DefaultDuration, a[4])

AgentGenerate ==
    /\ Len(plans) < MaxCalls
    /\ \E weeks \in AgentWeeks, split_type \in AgentSplits :
            GenerateWorkoutPlan(weeks, split_type)

NextAgent == AgentAssess \/ AgentGenerate

SpecAgent == InitAgent /\ [][NextAgent]_vars

\* C17: scenario: after assess with days_per_week = 4 and goal
\* muscle_building the recommended split is 'upper_lower', and
\* generate_plan(weeks = 2) on that profile returns exactly 2 week entries,
\* each with the 4 sessions Upper A, Lower A, Upper B, Lower B in that
\* order, in which every compound slot carries 3 sets, reps '8-12' and rest
\* '60-90 sec'.
C17_FourDayScenario ==
    /\ (ret.op = "assess_user" /\ arg[4] = 4 /\ arg[1] = "muscle_building")
          => /\ ret.recommended_split = "upper_lower"
             /\ user_profile.recommended_split = "upper_lower"
    /\ (/\ ret.op = "generate_workout_plan"
        /\ arg = <<2, None>>
        /\ DOMAIN user_profile # {}
        /\ user_profile.days_per_week = 4
        /\ user_profile.goal = "muscle_building")
          => /\ Len(ret.value.weeks) = 2
             /\ \A w \in 1..2 :
                  /\ ret.value.weeks[w].week_number = w
                  /\ [i \in DOMAIN ret.value.weeks[w].sessions |->
                        ret.value.weeks[w].sessions[i].name]
                       = <<"Upper A", "Lower A", "Upper B", "Lower B">>
                  /\ \A i \in DOMAIN ret.value.weeks[w].sessions :
                       \A j \in DOMAIN ret.value.weeks[w].sessions[i].exercises :
                          LET slot == ret.value.weeks[w].sessions[i].exercises[j]
                          IN  slot.type = "compound" =>
                                /\ slot.sets = 3
                                /\ slot.reps = "8-12"
                                /\ slot.rest = "60-90 sec"

\* C17 witness: the scenario on an agent that has generated a strength plan
\* on the same split before
C17_Witness ==
    /\ ret.op = "generate_workout_plan"
    /\ arg = <<2, None>>
    /\ DOMAIN user_profile # {}
    /\ user_profile.days_per_week = 4
    /\ user_profile.goal = "muscle_building"
    /\ Len(plans) = 2
    /\ plans[1].args.goal = "strength"
    /\ plans[1].args.split_type = "upper_lower"
    /\ Len(ret.value.weeks) = 2
    /\ ret.value.weeks[2].sessions[1].exercises[1].reps = "8-12"

\* C18: after any sequence of assess and generate_workout_plan calls, the
\* stored profile's recommended_split is the value the fixed table gives
\* for the days_per_week of the most recent assess (2 and 3: full_body, 4:
\* upper_lower, 5: the five-day hybrid, 6: ppl, anything else: full_body);
\* generate_workout_plan, with or without a split override, leaves every
\* field of the stored profile unchanged.
C18_SplitFromDaysOnly ==
    [][ /\ ret'.op = "assess_user" =>
              /\ user_profile'.days_per_week = arg'[4]
              /\ profile_file' = <<user_profile'>>
        /\ ret'.op = "generate_workout_plan" =>
              /\ user_profile' = user_profile
              /\ profile_file' = profile_file
        /\ DOMAIN user_profile' # {} =>
              user_profile'.recommended_split =
                  (IF user_profile'.days_per_week \in {2, 3} THEN "full_body"
                   ELSE IF user_profile'.days_per_week = 4 THEN "upper_lower"
                   ELSE IF user_profile'.days_per_week = 5 THEN "upper_lower_ppl"
                   ELSE IF user_profile'.days_per_week = 6 THEN "ppl"
                   ELSE "full_body")
      ]_vars

\* C18 witness: a profile assessed for 5 days a week, recommended split the
\* five-day hybrid, after a plan was generated with the override 'ppl'
C18_Witness ==
    /\ ret.op = "generate_workout_plan"
    /\ arg = <<2, "ppl">>
    /\ DOMAIN user_profile # {}
    /\ user_profile.days_per_week = 5
    /\ user_profile.recommended_split = "upper_lower_ppl"
    /\ plans[Len(plans)].args.split_type = "ppl"
    /\ profile_file = <<user_profile>>


-----------------------------------------------------------------------------
(***************************************************************************)
(* SpecFirstUse: an agent constructed on a data directory without a        *)
(* profile.json, with or without a current_plan.json of an earlier         *)
(* session; generate_workout_plan is called before and after assess_user.  *)
(***************************************************************************)

\* current_plan.json as an earlier session left it
EarlierPlan ==
    GeneratedPlan(NewSplits,
                  PlanArgs("full_body", "beginner", "fat_loss", "home_gym", 1, <<>>))

InitFirstUse ==
    /\ splits = NewSplits
    /\ plans = <<>>
    /\ TrackerIdle
    /\ profile_file = <<>>
    /\ user_profile = EmptyDict
    /\ plan_file \in {<<>>, <<EarlierPlan>>}

FirstUseGenerate ==
    /\ Len(plans) < MaxCalls
    /\ \E weeks \in {1, 2}, split_type \in AgentSplits :
            GenerateWorkoutPlan(weeks, split_type)

FirstUseAssess ==
    \E days_per_week \in {3, 4} :
        AssessUser("strength", "beginner", "home_gym", days_per_week,
                   DefaultDuration, <<"knee">>)

NextFirstUse == FirstUseGenerate \/ FirstUseAssess

SpecFirstUse == InitFirstUse /\ [][NextFirstUse]_vars

\* C25: generate_workout_plan called while no profile exists (no assessment
\* done and none loaded) returns an error result, does not invoke the Plan
\* Generator, and leaves the profile, the persisted current_plan and the
\* generator's templates unchanged.
C25_NoProfileNoPlan ==
    [][ (FirstUseGenerate /\ DOMAIN user_profile = {}) =>
          /\ ret'.op = "generate_workout_plan"
          /\ DOMAIN ret'.value = {"error"}
          /\ ret'.value.error = "Please complete assessment first"
          /\ plans' = plans
          /\ splits' = splits
          /\ user_profile' = user_profile
          /\ profile_file' = profile_file
          /\ plan_file' = plan_file
      ]_vars

\* C25 witness: the error was returned on a directory that holds the plan of
\* an earlier session, which is still there, and no plan was generated
C25_Witness ==
    /\ ret.op = "generate_workout_plan"
    /\ "error" \in DOMAIN ret.value
    /\ DOMAIN user_profile = {}
    /\ plan_file = <<EarlierPlan>>
    /\ plans = <<>>
    /\ splits = NewSplits

=============================================================================
